---- MODULE Spec2Model ----
(***************************************************************************)
(* Juke_Jam backend: the retrieval-and-ranking engine of                   *)
(* backend/musicSearch/music_search.py and the request models that feed    *)
(* it.                                                                     *)
(*                                                                         *)
(* Conventions                                                             *)
(*  - A Python str is a sequence of one-character strings, so that         *)
(*    str.lower() and the \w+ tokenizer are computed, not assumed.         *)
(*    None, "" and [] are all falsy and the code only ever tests their     *)
(*    truthiness, so all three are the empty sequence <<>>.                *)
(*  - A Python list is a sequence, a set is a set, a dict is a function.   *)
(*  - Optional[Set] (text_hits) is a sequence of zero or one sets.         *)
(*  - Floats are fixed point; each unit is stated where it is used.        *)
(***************************************************************************)
EXTENDS Integers, Sequences, FiniteSets, TLC

VARIABLES
    indexes,                \* data.indexes: category -> token -> list of track ids
    track_lookup,           \* data.track_lookup: track id -> catalog row
    user_profiles,          \* data.user_profiles: lowercased user id -> profile
    time_context_profiles,  \* data.time_context_profiles: user id -> slot -> context
    spotify_tokens,         \* data.spotify_tokens: Spotify user id -> token data
    requests,               \* the suspended spotify_profile coroutines
    phase,                  \* "startup", then "serving" or "failed"
    call,                   \* the call being served: its name and arguments
    ret                     \* what that call returned

\* The stores of data.py that the engine itself never writes, and the
\* position of the application.
service == <<user_profiles, time_context_profiles, spotify_tokens, requests, phase>>

vars == <<indexes, track_lookup, service, call, ret>>

-----------------------------------------------------------------------------
(* Bounds of the model *)

MaxTitleWords == 2      \* words in a title query text
MaxArtistWords == 1     \* words in an artist query text
MaxGenres == 2          \* entries in a requested genre list
MaxCand == 3            \* entries in a candidate list handed to a ranker
MaxTopK == 2            \* |top_k| of a request

-----------------------------------------------------------------------------
(* Strings *)

s_love == <<"l", "o", "v", "e">>
s_song == <<"s", "o", "n", "g">>
s_abba == <<"a", "b", "b", "a">>
s_Love == <<"L", "o", "v", "e">>
s_Song == <<"S", "o", "n", "g">>
s_Abba == <<"A", "b", "b", "a">>
s_bang == <<"!", "!">>
s_Love_Song == <<"L", "o", "v", "e", " ", "S", "o", "n", "g">>
s_Love_Love == <<"L", "o", "v", "e", " ", "L", "o", "v", "e">>
s_pop == <<"p", "o", "p">>
s_Pop == <<"P", "o", "p">>
s_rock == <<"r", "o", "c", "k">>
s_jazz == <<"j", "a", "z", "z">>
s_sad == <<"s", "a", "d">>
s_Sad == <<"S", "a", "d">>
s_happy == <<"h", "a", "p", "p", "y">>
s_hype == <<"h", "y", "p", "e">>
s_chill == <<"c", "h", "i", "l", "l">>
s_focus == <<"f", "o", "c", "u", "s">>
s_calm == <<"c", "a", "l", "m">>
s_energetic == <<"e", "n", "e", "r", "g", "e", "t", "i", "c">>
s_workout == <<"w", "o", "r", "k", "o", "u", "t">>
s_study == <<"s", "t", "u", "d", "y">>
s_relax == <<"r", "e", "l", "a", "x">>
s_commute == <<"c", "o", "m", "m", "u", "t", "e">>
s_nap == <<"n", "a", "p">>

\* All sequences over S of length at most n.
SeqsUpTo(S, n) == UNION {[1..k -> S] : k \in 0..n}

RECURSIVE JoinWords(_)
\* The words of ws separated by single spaces.
JoinWords(ws) ==
    IF ws = <<>> THEN <<>>
    ELSE IF Len(ws) = 1 THEN ws[1]
    ELSE ws[1] \o <<" ">> \o JoinWords(Tail(ws))

\* str.lower(), on the letters the model's texts use.
UpperToLower == ("A" :> "a") @@ ("L" :> "l") @@ ("P" :> "p") @@ ("S" :> "s")

lower(text) ==
    [i \in DOMAIN text |->
        IF text[i] \in DOMAIN UpperToLower THEN UpperToLower[text[i]] ELSE text[i]]

\* The regular expression class \w, on the characters the model's texts use.
IsWordChar(c) == c \notin {" ", "!", ","}

RECURSIVE findall(_, _, _)
\* TOKEN_RE.findall: the maximal runs of word characters of text, from
\* position i on, cur being the run read so far.
findall(text, i, cur) ==
    LET done == IF cur = <<>> THEN <<>> ELSE <<cur>>
    IN  IF i > Len(text) THEN done
        ELSE IF IsWordChar(text[i]) THEN findall(text, i + 1, Append(cur, text[i]))
        ELSE done \o findall(text, i + 1, <<>>)

tokenize(text) ==
    IF text = <<>> THEN <<>> ELSE findall(lower(text), 1, <<>>)

-----------------------------------------------------------------------------
(* Python containers *)

\* dict.get(key, []) on a postings dict.
index_get(index, tok) == IF tok \in DOMAIN index THEN index[tok] ELSE <<>>

\* set(list)
set(list) == {list[i] : i \in DOMAIN list}

\* set.intersection(*sets) for a non-empty list of sets.
set_intersection(sets) == {x \in sets[1] : \A i \in DOMAIN sets : x \in sets[i]}

-----------------------------------------------------------------------------
(* The data loaded at startup (backend/data.py) *)

\* One catalog row: the columns the engine reads. The unit features are in
\* units of 1/FeatureUnit, tempo is in BPM, popularity is 0..100.
Row(title, artist, genre, mood, energy_label, pop, e, v, d, a, tempo) ==
    [title |-> title, artist_name |-> artist, genre |-> genre,
     mood_bucket |-> mood, energy_label |-> energy_label, popularity |-> pop,
     energy |-> e, valence |-> v, danceability |-> d, acousticness |-> a,
     tempo |-> tempo]

\* A three-track catalog.
MainCatalog ==
    (1 :> Row(s_Love_Song, s_Abba, s_pop, s_happy, s_energetic, 80, 153, 135, 153, 27, 140))
    @@ (2 :> Row(s_Love_Love, s_Abba, s_pop, s_sad, s_calm, 50, 36, 36, 54, 108, 85))
    @@ (3 :> Row(s_Song, s_Love, s_rock, s_sad, s_calm, 50, 36, 36, 54, 108, 85))

\* A catalog file with a header and no rows.
EmptyCatalog == [k \in {} |-> <<>>]

\* The index built offline from MainCatalog; the genre postings of rock also
\* name track 4, which the catalog does not hold, and the title postings of
\* love list track 2 once per occurrence.
MainIndexes ==
    [genre  |-> (s_pop :> <<1, 2>>) @@ (s_rock :> <<3, 4>>),
     mood   |-> (s_happy :> <<1>>) @@ (s_sad :> <<2, 3>>),
     energy |-> (s_energetic :> <<1>>) @@ (s_calm :> <<2, 3>>),
     title  |-> (s_love :> <<1, 2, 2>>) @@ (s_song :> <<1, 3>>),
     artist |-> (s_abba :> <<1, 2>>) @@ (s_love :> <<3>>)]

-----------------------------------------------------------------------------
(* Candidate retrieval *)

\* field_hits with OR across the tokens of a query instead of AND.
field_hits_any(index, query) ==
    IF query = <<>> THEN <<>>
    ELSE LET words == tokenize(query)
         IN  IF words = <<>> THEN <<>>
             ELSE << UNION {set(index_get(index, words[i])) : i \in DOMAIN words} >>

\* Lines 123-128 (title) and 130-135 (artist): the hits of one text query in
\* its own index; None when the query is falsy or yields no token.
field_hits(index, query) ==
    IF query = <<>> THEN <<>>
    ELSE LET words == tokenize(query)
         IN  IF words = <<>> THEN <<>>
             ELSE << set_intersection(
                       [i \in DOMAIN words |-> set(index_get(index, words[i]))]) >>

\* Lines 121-136: text_hits, None or the title hits, the artist hits or both
\* intersected.
text_hits(title_index, artist_index, title_query, artist_query) ==
    LET title_part == field_hits(title_index, title_query)
        artist_part == field_hits(artist_index, artist_query)
    IN  IF artist_part = <<>> THEN title_part
        ELSE IF title_part = <<>> THEN artist_part
        ELSE << title_part[1] \cap artist_part[1] >>

\* genre_hits that stops at the first requested genre.
genre_hits_first(genre_index, genres) ==
    IF genres = <<>> \/ Head(genres) = <<>> THEN {}
    ELSE set(index_get(genre_index, lower(Head(genres))))

RECURSIVE genre_hits(_, _)
\* Lines 143-146: the union of the postings of every truthy requested genre.
genre_hits(genre_index, genres) ==
    IF genres = <<>> THEN {}
    ELSE (IF Head(genres) # <<>>
          THEN set(index_get(genre_index, lower(Head(genres))))
          ELSE {})
         \cup genre_hits(genre_index, Tail(genres))

\* bucket_hits that looks the value up as given, without lowercasing it.
bucket_hits_as_given(index, value) == set(index_get(index, value))

\* Lines 149-153: the postings of a lowercased mood or energy value.
bucket_hits(index, value) == set(index_get(index, lower(value)))

\* intersect_filters that defaults to every indexed document.
intersect_filters_all_docs(sets) ==
    IF sets = <<>>
    THEN UNION {UNION {set(indexes[c][tok]) : tok \in DOMAIN indexes[c]} :
                   c \in DOMAIN indexes}
    ELSE set_intersection(sets)

\* Lines 155-159: no active filter gives no candidate, else the intersection.
intersect_filters(sets) == IF sets = <<>> THEN {} ELSE set_intersection(sets)

\* The returned list is list(set): its ids are distinct and its order is
\* whatever the set's iteration gives, so the value kept is the set.
retrieve_candidates(idx, genres, mood, energy, title_query, artist_query) ==
    LET sets ==
            text_hits(idx.title, idx.artist, title_query, artist_query)
            \o (IF genres # <<>> THEN << genre_hits(idx.genre, genres) >> ELSE <<>>)
            \o (IF mood # <<>> THEN << bucket_hits(idx.mood, mood) >> ELSE <<>>)
            \o (IF energy # <<>> THEN << bucket_hits(idx.energy, energy) >> ELSE <<>>)
    IN  intersect_filters(sets)

-----------------------------------------------------------------------------
(* Inputs of the retrieval calls *)

QueryWords == {s_love, s_Song, s_Abba, s_bang}
TitleTexts == {JoinWords(ws) : ws \in SeqsUpTo(QueryWords, MaxTitleWords)}
ArtistTexts == {JoinWords(ws) : ws \in SeqsUpTo(QueryWords, MaxArtistWords)}
GenreInputs == {s_Pop, s_rock}
GenreLists == SeqsUpTo(GenreInputs, MaxGenres)
MoodInputs == {<<>>, s_Sad, s_happy}
EnergyInputs == {<<>>, s_calm}

NoCall == [op |-> "none"]

\* A dict with no key.
EmptyDict == [k \in {} |-> <<>>]

\* The stores no engine call reads: no user, the application serving.
NoUsers ==
    /\ user_profiles = EmptyDict
    /\ time_context_profiles = EmptyDict
    /\ spotify_tokens = EmptyDict
    /\ requests = {}
    /\ phase = "serving"

InitRetrieve ==
    /\ indexes = MainIndexes
    /\ track_lookup = MainCatalog
    /\ NoUsers
    /\ call = NoCall
    /\ ret = {}

\* The caller takes the result; the engine is idle again.
Return ==
    /\ call # NoCall
    /\ call' = NoCall
    /\ ret' = {}
    /\ UNCHANGED <<indexes, track_lookup, service>>

\* A call of retrieve_candidates on the loaded index.
RetrieveCandidates ==
    /\ call = NoCall
    /\ \E title \in TitleTexts, artist \in ArtistTexts, genres \in GenreLists,
       mood \in MoodInputs, energy \in EnergyInputs :
        /\ call' = [op |-> "retrieve_candidates", title_query |-> title,
                    artist_query |-> artist, genres |-> genres, mood |-> mood,
                    energy |-> energy]
        /\ ret' = retrieve_candidates(indexes, genres, mood, energy, title, artist)
    /\ UNCHANGED <<indexes, track_lookup, service>>

NextRetrieve == RetrieveCandidates \/ Return

SpecRetrieve == InitRetrieve /\ [][NextRetrieve]_vars

-----------------------------------------------------------------------------
(* TF-IDF ranking.  Logarithms and term frequencies are in units of 1/1000, *)
(* a TF-IDF score, the product of two such numbers, in units of 1/1000000.  *)

MilliUnit == 1000

\* math.log(n) for the small whole numbers the model meets, rounded to 1/1000.
LnMilli == <<0, 693, 1099, 1386, 1609, 1792, 1946, 2079>>

\* math.log(a / b) for whole a, b >= 1.
log_ratio(a, b) == LnMilli[a] - LnMilli[b]

\* len(track_lookup)
unique_doc_count(lookup) == Cardinality(DOMAIN lookup)

doc_freq_for_token(token, title_index, artist_index) ==
    LET title_docs == set(index_get(title_index, token))
        artist_docs == set(index_get(artist_index, token))
    IN  Cardinality(title_docs \cup artist_docs)

idf(token, title_index, artist_index, N) ==
    LET df == doc_freq_for_token(token, title_index, artist_index)
    IN  log_ratio(N + 1, df + 1) + MilliUnit

\* Counter(tokens).get(t, 0)
count_of(tokens, t) == Cardinality({i \in DOMAIN tokens : tokens[i] = t})

\* The dict term -> TF of one document field: 0 if absent, else 1 + ln(freq).
compute_tf_for_doc(tokens, query_terms) ==
    [t \in set(query_terms) |->
        LET f == count_of(tokens, t)
        IN  IF f = 0 THEN 0 ELSE MilliUnit + LnMilli[f]]

RECURSIVE sum_seq(_)
sum_seq(xs) == IF xs = <<>> THEN 0 ELSE Head(xs) + sum_seq(Tail(xs))

\* The default field weights: title 2.0, artist 1.0.
TitleWeight == 2
ArtistWeight == 1

\* One summand per entry of the query_terms list, repeated terms included.
score_doc_tfidf_for_fields(doc, query_terms, N, title_index, artist_index) ==
    LET tf_title == compute_tf_for_doc(tokenize(doc.title), query_terms)
        tf_artist == compute_tf_for_doc(tokenize(doc.artist_name), query_terms)
    IN  sum_seq([i \in DOMAIN query_terms |->
            LET term == query_terms[i]
            IN  (TitleWeight * tf_title[term] + ArtistWeight * tf_artist[term])
                    * idf(term, title_index, artist_index, N)])

RECURSIVE concat_tokens(_)
\* Lines 237-240: the tokens of every truthy fragment, in order.
concat_tokens(query_texts) ==
    IF query_texts = <<>> THEN <<>>
    ELSE (IF Head(query_texts) # <<>> THEN tokenize(Head(query_texts)) ELSE <<>>)
         \o concat_tokens(Tail(query_texts))

\* list[:k]: the first k entries for k >= 0, all but the last -k for k < 0.
slice_to(list, k) ==
    LET n == Len(list)
        stop == IF k >= 0 THEN (IF k < n THEN k ELSE n)
                ELSE (IF n + k > 0 THEN n + k ELSE 0)
    IN  SubSeq(list, 1, stop)

\* The sort key without its tie-break: -x[1] alone.
key_less_score_only(x, y) == x[2] > y[2]

\* The sort key without the minus sign: (x[1], x[0]).
key_less_ascending(x, y) == x[2] < y[2] \/ (x[2] = y[2] /\ x[1] < y[1])

\* The sort key (-x[1], x[0]) of an entry <<track id, score, ...>>: whether
\* the key of x is strictly smaller than the key of y.
key_less(x, y) == x[2] > y[2] \/ (x[2] = y[2] /\ x[1] < y[1])

\* Where a stable sort puts x among the sorted entries: after every entry
\* whose key is not greater.
sort_insert(sorted, x) ==
    LET pos == Cardinality({i \in DOMAIN sorted : ~key_less(x, sorted[i])})
    IN  SubSeq(sorted, 1, pos) \o <<x>> \o SubSeq(sorted, pos + 1, Len(sorted))

RECURSIVE sort_by_key(_)
\* list.sort(key=lambda x: (-x[1], x[0]))
sort_by_key(entries) ==
    IF entries = <<>> THEN <<>>
    ELSE sort_insert(sort_by_key(SubSeq(entries, 1, Len(entries) - 1)),
                     entries[Len(entries)])

\* track_lookup.get(tid) is truthy: the id is a key and its row is not empty.
has_row(lookup, tid) == tid \in DOMAIN lookup /\ lookup[tid] # <<>>

RECURSIVE keep_known(_, _)
\* The candidates that have a row, in order ("if not doc: continue").
keep_known(candidates, lookup) ==
    IF candidates = <<>> THEN <<>>
    ELSE (IF has_row(lookup, Head(candidates)) THEN <<Head(candidates)>> ELSE <<>>)
         \o keep_known(Tail(candidates), lookup)

\* Lines 250-265: one <<tid, score>> per candidate that has a row.
tfidf_scored(candidates, query_terms, lookup, idx) ==
    LET known == keep_known(candidates, lookup)
        N == unique_doc_count(lookup)
    IN  [i \in DOMAIN known |->
            <<known[i],
              score_doc_tfidf_for_fields(lookup[known[i]], query_terms, N,
                                         idx.title, idx.artist)>>]

\* Lines 243-244: without query terms, the first candidates with score 0.
unscored(candidates, top_k) ==
    LET first == slice_to(candidates, top_k)
    IN  [i \in DOMAIN first |-> <<first[i], 0>>]

rank_candidates_with_tfidf(candidates, query_texts, lookup, idx, top_k) ==
    LET query_terms == concat_tokens(query_texts)
    IN  IF query_terms = <<>> THEN unscored(candidates, top_k)
        ELSE slice_to(sort_by_key(tfidf_scored(candidates, query_terms, lookup, idx)),
                      top_k)

-----------------------------------------------------------------------------
(* Feature-based reranking.  An audio feature in [0,1] is a whole number of *)
(* 1/180 (the tempo range 220 - 40, which makes every value of the mood,    *)
(* activity and tempo tables exact); a score or score component is in units *)
(* of 1/10000, the four decimals of the breakdown; the final score, a sum   *)
(* of components weighted in hundredths, is in units of 1/1000000.          *)

FeatureUnit == 180
ScoreUnit == 10000
TEMPO_MIN == 40

AUDIO_FEATURES == <<"energy", "valence", "danceability", "acousticness", "tempo">>

\* 0.5, the default of a missing unit feature.
HalfFeature == FeatureUnit \div 2

\* normalize_tempo without the clamp to [0, 1].
normalize_tempo_unclamped(tempo) == tempo - TEMPO_MIN

\* max(0.0, min(1.0, (tempo - 40) / 180)) for a tempo in whole BPM.
normalize_tempo(tempo) ==
    LET x == tempo - TEMPO_MIN
    IN  IF x < 0 THEN 0 ELSE IF x > FeatureUnit THEN FeatureUnit ELSE x

\* record.get(feat, 0.5), then the tempo normalized.  A missing tempo is
\* 0.5 BPM, below TEMPO_MIN, and normalizes to 0.
build_feature_vector(record) ==
    [i \in DOMAIN AUDIO_FEATURES |->
        LET feat == AUDIO_FEATURES[i]
        IN  IF feat = "tempo"
            THEN (IF feat \in DOMAIN record THEN normalize_tempo(record[feat]) ELSE 0)
            ELSE (IF feat \in DOMAIN record THEN record[feat] ELSE HalfFeature)]

RECURSIVE sqrt_search(_, _, _)
\* The least r in lo..hi with r * r >= n.
sqrt_search(n, lo, hi) ==
    IF lo >= hi THEN lo
    ELSE LET mid == (lo + hi) \div 2
         IN  IF mid * mid >= n THEN sqrt_search(n, lo, mid)
             ELSE sqrt_search(n, mid + 1, hi)

\* math.sqrt(n) in units of 1/100, rounded up.
sqrt_centi(n) == sqrt_search(n * 10000, 0, 46340)

\* cosine_similarity that guards the first magnitude only; dividing by a
\* zero product raises ZeroDivisionError, shown as the value -1.
cosine_similarity_half_guarded(a, b) ==
    LET dot == sum_seq([i \in DOMAIN a |-> a[i] * b[i]])
        mag_a == sqrt_centi(sum_seq([i \in DOMAIN a |-> a[i] * a[i]]))
        mag_b == sqrt_centi(sum_seq([i \in DOMAIN b |-> b[i] * b[i]]))
        den == (mag_a * mag_b + 9999) \div 10000
    IN  IF mag_a = 0 THEN 0
        ELSE IF den = 0 THEN 0 - 1
        ELSE (dot * ScoreUnit) \div den

\* dot / (mag_a * mag_b) in units of 1/ScoreUnit, 0 for a zero vector.  The
\* magnitudes are in 1/100, so their product is in 1/10000.  Magnitudes and
\* denominator are rounded up and the quotient down: the value is the real
\* quotient rounded toward zero, short by a few units at most.
cosine_similarity(a, b) ==
    LET dot == sum_seq([i \in DOMAIN a |-> a[i] * b[i]])
        mag_a == sqrt_centi(sum_seq([i \in DOMAIN a |-> a[i] * a[i]]))
        mag_b == sqrt_centi(sum_seq([i \in DOMAIN b |-> b[i] * b[i]]))
        den == (mag_a * mag_b + 9999) \div 10000
    IN  IF mag_a = 0 \/ mag_b = 0 THEN 0
        ELSE (dot * ScoreUnit) \div den

\* The table with hype -> happy left out: happy and hype related one way.
adjacent_one_way ==
    (s_happy :> {s_hype, s_chill})
    @@ (s_chill :> {s_happy, s_sad, s_focus})
    @@ (s_sad :> {s_chill, s_focus})
    @@ (s_focus :> {s_chill, s_sad})

\* The table "adjacent" of _mood_match_score.
adjacent ==
    (s_happy :> {s_hype, s_chill})
    @@ (s_hype :> {s_happy})
    @@ (s_chill :> {s_happy, s_sad, s_focus})
    @@ (s_sad :> {s_chill, s_focus})
    @@ (s_focus :> {s_chill, s_sad})

mood_match_score(song_mood, target_mood) ==
    IF song_mood = <<>> \/ target_mood = <<>> THEN 0
    ELSE IF song_mood = target_mood THEN ScoreUnit
    ELSE IF song_mood \in DOMAIN adjacent /\ target_mood \in adjacent[song_mood]
         THEN (3 * ScoreUnit) \div 10
    ELSE 0

\* _genre_match_score that compares the genres as written.
genre_match_score_as_given(song_genre, user_genres) ==
    IF song_genre = <<>> \/ user_genres = <<>> THEN 0
    ELSE IF \E i \in DOMAIN user_genres : song_genre = user_genres[i] THEN ScoreUnit
    ELSE 0

genre_match_score(song_genre, user_genres) ==
    IF song_genre = <<>> \/ user_genres = <<>> THEN 0
    ELSE IF \E i \in DOMAIN user_genres : lower(song_genre) = lower(user_genres[i])
         THEN ScoreUnit
    ELSE 0

\* The table activity_energy of build_user_audio_vector, in 1/180.
activity_energy ==
    (s_workout :> 153) @@ (s_study :> 45) @@ (s_relax :> 36) @@ (s_commute :> 99)

\* The table mood_profiles, unit features in 1/180 and tempo in BPM.
mood_profiles ==
    (s_happy :> [valence |-> 144, danceability |-> 126, acousticness |-> 54, tempo |-> 120])
    @@ (s_sad :> [valence |-> 36, danceability |-> 54, acousticness |-> 108, tempo |-> 85])
    @@ (s_chill :> [valence |-> 81, danceability |-> 72, acousticness |-> 99, tempo |-> 95])
    @@ (s_hype :> [valence |-> 135, danceability |-> 153, acousticness |-> 27, tempo |-> 140])
    @@ (s_focus :> [valence |-> 72, danceability |-> 63, acousticness |-> 90, tempo |-> 100])

neutral_profile ==
    [valence |-> 90, danceability |-> 90, acousticness |-> 90, tempo |-> 110]

\* build_user_audio_vector that lets a stored preference win over the
\* activity.
build_user_audio_vector_stored_first(user_profile, mood, activity) ==
    LET base_energy == IF "avg_energy_preference" \in DOMAIN user_profile
                       THEN user_profile.avg_energy_preference
                       ELSE IF activity # <<>> /\ activity \in DOMAIN activity_energy
                            THEN activity_energy[activity] ELSE HalfFeature
        mp == IF mood \in DOMAIN mood_profiles THEN mood_profiles[mood]
              ELSE neutral_profile
    IN  build_feature_vector(
            [energy |-> base_energy, valence |-> mp.valence,
             danceability |-> mp.danceability, acousticness |-> mp.acousticness,
             tempo |-> mp.tempo])

build_user_audio_vector(user_profile, mood, activity) ==
    LET stored == IF "avg_energy_preference" \in DOMAIN user_profile
                  THEN user_profile.avg_energy_preference ELSE HalfFeature
        base_energy == IF activity # <<>> /\ activity \in DOMAIN activity_energy
                       THEN activity_energy[activity] ELSE stored
        mp == IF mood \in DOMAIN mood_profiles THEN mood_profiles[mood]
              ELSE neutral_profile
    IN  build_feature_vector(
            [energy |-> base_energy, valence |-> mp.valence,
             danceability |-> mp.danceability, acousticness |-> mp.acousticness,
             tempo |-> mp.tempo])

\* float(song.get("popularity", 50)) / 100.0
popularity_score(song) ==
    (IF "popularity" \in DOMAIN song THEN song.popularity ELSE 50) * (ScoreUnit \div 100)

\* round(x, 4) of a final score in 1/1000000, half to even.
round4(x) ==
    LET q == x \div 100
        r == x % 100
    IN  IF r > 50 \/ (r = 50 /\ q % 2 = 1) THEN q + 1 ELSE q

\* <<final, breakdown>>: final in 1/1000000, the breakdown in 1/10000.
score_candidate_song(song, user_vector, target_mood, user_genres) ==
    LET sim == cosine_similarity(user_vector, build_feature_vector(song))
        mood_sc == mood_match_score(
                       IF "mood_bucket" \in DOMAIN song THEN song.mood_bucket ELSE <<>>,
                       target_mood)
        genre_sc == genre_match_score(
                       IF "genre" \in DOMAIN song THEN song.genre ELSE <<>>, user_genres)
        pop_sc == popularity_score(song)
        final == 45 * sim + 25 * mood_sc + 15 * genre_sc + 15 * pop_sc
    IN  <<final,
          [audio_similarity |-> sim, mood_match |-> mood_sc, genre_match |-> genre_sc,
           popularity |-> pop_sc, final_score |-> round4(final)]>>

\* Lines 424-430: one <<tid, final, breakdown>> per candidate that has a row.
features_scored(candidates, lookup, user_vector, mood, user_genres) ==
    LET known == keep_known(candidates, lookup)
    IN  [i \in DOMAIN known |->
            LET sc == score_candidate_song(lookup[known[i]], user_vector, mood,
                                           user_genres)
            IN  <<known[i], sc[1], sc[2]>>]

rank_candidates_by_features(candidates, lookup, user_profile, mood, activity, top_k) ==
    LET user_vector == build_user_audio_vector(user_profile, mood, activity)
        user_genres == IF "top_genres" \in DOMAIN user_profile
                       THEN user_profile.top_genres ELSE <<>>
    IN  slice_to(sort_by_key(features_scored(candidates, lookup, user_vector, mood,
                                             user_genres)),
                 top_k)

-----------------------------------------------------------------------------
(* Inputs of the ranking calls *)

\* The ids a candidate list may hold: those of the catalog and the unknown 4.
CandIds == {1, 2, 3, 4}
CandLists == SeqsUpTo(CandIds, MaxCand)
TopKs == (0 - MaxTopK) .. MaxTopK

\* The two fragments [title or "", artist or ""] of a search.
TitleFragments == ArtistTexts
ArtistFragments == {<<>>, s_love, s_Abba}

\* Terms asked for their IDF: three of the corpus and one absent from it.
Vocabulary == {s_love, s_song, s_abba, s_pop}
MaxDocs == 3

Moods == {s_happy, s_sad, s_chill, s_hype, s_focus}

Profile(genres, avg_energy) ==
    [top_genres |-> genres, avg_energy_preference |-> avg_energy]

\* Stored profiles, and the default profile of an unknown user.
Profiles ==
    {Profile(<<s_pop, s_rock>>, 153), Profile(<<s_jazz>>, 0), Profile(<<>>, HalfFeature)}

\* Songs on the corners of the feature cube, with a tempo below, inside and
\* above the normalized range, and the rows of the catalog.
Songs ==
    {Row(s_Song, s_Abba, g, m, s_calm, pop, e, v, d, a, t) :
        g \in {s_Pop, s_jazz, <<>>}, m \in Moods \cup {<<>>}, pop \in {0, 100},
        e \in {0, FeatureUnit}, v \in {0, FeatureUnit}, d \in {0, FeatureUnit},
        a \in {0, FeatureUnit}, t \in {0, 140, 300}}
    \cup {MainCatalog[k] : k \in DOMAIN MainCatalog}
    \cup {Row(s_Song, s_Abba, s_pop, s_hype, s_energetic, 100, 153, 135, 153, 27, 140)}

TargetMoods == Moods \cup {s_calm, <<>>}
Activities == {<<>>, s_workout, s_nap}

InitRank ==
    /\ indexes = MainIndexes
    /\ track_lookup = MainCatalog
    /\ NoUsers
    /\ call = NoCall
    /\ ret = {}

\* A call of idf for a term and a document count.
Idf ==
    /\ call = NoCall
    /\ \E token \in Vocabulary, N \in 0 .. MaxDocs :
        /\ call' = [op |-> "idf", token |-> token, N |-> N]
        /\ ret' = [df |-> doc_freq_for_token(token, indexes.title, indexes.artist),
                   idf |-> idf(token, indexes.title, indexes.artist, N)]
    /\ UNCHANGED <<indexes, track_lookup, service>>

\* A call of rank_candidates_with_tfidf on the loaded data.
RankTfidf ==
    /\ call = NoCall
    /\ \E candidates \in CandLists, title \in TitleFragments,
          artist \in ArtistFragments, top_k \in TopKs :
        /\ call' = [op |-> "rank_candidates_with_tfidf", candidates |-> candidates,
                    query_texts |-> <<title, artist>>, top_k |-> top_k]
        /\ ret' = rank_candidates_with_tfidf(candidates, <<title, artist>>,
                                             track_lookup, indexes, top_k)
    /\ UNCHANGED <<indexes, track_lookup, service>>

\* A call of score_candidate_song with the target vector of a context, as
\* rank_candidates_by_features makes for each candidate.
ScoreSong ==
    /\ call = NoCall
    /\ \E song \in Songs, profile \in Profiles, mood \in TargetMoods,
          activity \in Activities :
        /\ call' = [op |-> "score_candidate_song", song |-> song,
                    user_profile |-> profile, mood |-> mood, activity |-> activity]
        /\ ret' = score_candidate_song(
                      song, build_user_audio_vector(profile, mood, activity), mood,
                      profile.top_genres)
    /\ UNCHANGED <<indexes, track_lookup, service>>

\* A call of rank_candidates_by_features on the loaded catalog.
RankByFeatures ==
    /\ call = NoCall
    /\ \E candidates \in CandLists, profile \in Profiles, mood \in {s_happy, s_sad},
          activity \in {<<>>, s_workout}, top_k \in TopKs :
        /\ call' = [op |-> "rank_candidates_by_features", candidates |-> candidates,
                    user_profile |-> profile, mood |-> mood, activity |-> activity,
                    top_k |-> top_k]
        /\ ret' = rank_candidates_by_features(candidates, track_lookup, profile, mood,
                                              activity, top_k)
    /\ UNCHANGED <<indexes, track_lookup, service>>

NextRank == Idf \/ RankTfidf \/ ScoreSong \/ RankByFeatures \/ Return

SpecRank == InitRank /\ [][NextRank]_vars

-----------------------------------------------------------------------------
(* Context functions: the target vector, the genre match, the cosine of     *)
(* arbitrary vectors, the timeslot of an hour and the time-context profile  *)
(* builder.  A confidence is in units of 1/1000, its three stored decimals. *)

MaxVecLen == 3          \* components of a vector handed to cosine_similarity
MaxEvents == 3          \* rows of the merged events table

s_morning == <<"m", "o", "r", "n", "i", "n", "g">>
s_afternoon == <<"a", "f", "t", "e", "r", "n", "o", "o", "n">>
s_evening == <<"e", "v", "e", "n", "i", "n", "g">>
s_night == <<"n", "i", "g", "h", "t">>
s_play == <<"p", "l", "a", "y">>
s_pause == <<"p", "a", "u", "s", "e">>
s_Ann == <<"A", "n", "n">>
s_ann == <<"a", "n", "n">>
s_bob == <<"b", "o", "b">>
s_PoP == <<"P", "o", "P">>

\* hour_to_timeslot whose morning starts after 6 instead of at 6.
hour_to_timeslot_late_morning(hour) ==
    IF 6 < hour /\ hour < 12 THEN s_morning
    ELSE IF 12 <= hour /\ hour < 17 THEN s_afternoon
    ELSE IF 17 <= hour /\ hour < 21 THEN s_evening
    ELSE s_night

hour_to_timeslot(hour) ==
    IF 6 <= hour /\ hour < 12 THEN s_morning
    ELSE IF 12 <= hour /\ hour < 17 THEN s_afternoon
    ELSE IF 17 <= hour /\ hour < 21 THEN s_evening
    ELSE s_night

\* One row of the frame "merged": an event joined with its session's mood
\* and activity and its track's genre.  A missing value (NaN) is <<>>.
Event(user_id, time_of_day, event_type, skipped, mood, activity, genre) ==
    [user_id |-> user_id, time_of_day |-> time_of_day, event_type |-> event_type,
     skipped |-> skipped, self_reported_mood |-> mood, activity_type |-> activity,
     genre |-> genre]

\* Lines 553-556: the events played and not skipped.
meaningful(merged) ==
    LET keep(r) == r.event_type = s_play /\ ~r.skipped
    IN  SelectSeq(merged, keep)

\* The rows of one group of frame.groupby(column); a row whose key is
\* missing belongs to no group.
group_rows(rows, column, key) ==
    LET keep(r) == r[column] = key
    IN  SelectSeq(rows, keep)

\* The keys of frame.groupby(column): the values present, the missing one
\* dropped.
group_keys(rows, column) == {rows[i][column] : i \in DOMAIN rows} \ {<<>>}

\* frame[column].dropna() as a list.
dropna(rows, column) ==
    LET keep(r) == r[column] # <<>>
        kept == SelectSeq(rows, keep)
    IN  [i \in DOMAIN kept |-> kept[i][column]]

\* The moods and activities in sorted order, the order Series.mode() lists
\* equally frequent values in.
SortedMoods == <<s_chill, s_focus, s_happy, s_hype, s_sad>>
SortedActivities == <<s_commute, s_relax, s_study, s_workout>>

\* Series.mode().iloc[0]: the most frequent value, the first in sorted order
\* among equally frequent ones.
mode_first(values, sorted) ==
    LET best == CHOOSE i \in DOMAIN sorted :
                    /\ \A j \in DOMAIN sorted :
                          count_of(values, sorted[j]) <= count_of(values, sorted[i])
                    /\ \A j \in 1 .. (i - 1) :
                          count_of(values, sorted[j]) < count_of(values, sorted[i])
    IN  sorted[best]

\* The position of the first occurrence of x in values.
first_index(values, x) == CHOOSE i \in DOMAIN values :
                              values[i] = x /\ \A j \in 1 .. (i - 1) : values[j] # x

RECURSIVE value_counts(_, _)
\* Series.value_counts().index: the distinct values of "values" that are in
\* "left", by descending count, equally frequent ones in order of first
\* appearance.
value_counts(values, left) ==
    IF left = {} THEN <<>>
    ELSE LET top == CHOOSE x \in left :
                        \A y \in left \ {x} :
                            \/ count_of(values, x) > count_of(values, y)
                            \/ /\ count_of(values, x) = count_of(values, y)
                               /\ first_index(values, x) < first_index(values, y)
         IN  <<top>> \o value_counts(values, left \ {top})

\* round3 that cuts the decimals off instead of rounding.
round3_down(num, den) == (num * MilliUnit) \div den

\* round(num / den, 3) in units of 1/1000, half to even.
round3(num, den) ==
    LET q == (num * MilliUnit) \div den
        r == (num * MilliUnit) % den
    IN  IF 2 * r > den \/ (2 * r = den /\ q % 2 = 1) THEN q + 1 ELSE q

\* Lines 563-585: the profile of one timeslot of one user.
timeslot_profile(tod_events, user_events) ==
    LET moods == dropna(tod_events, "self_reported_mood")
        activities == dropna(tod_events, "activity_type")
        genres == dropna(tod_events, "genre")
    IN  [typical_mood |-> IF Len(moods) > 0 THEN mode_first(moods, SortedMoods)
                          ELSE s_chill,
         typical_activity |-> IF Len(activities) > 0
                              THEN mode_first(activities, SortedActivities) ELSE <<>>,
         top_genres |-> IF Len(genres) > 0
                        THEN slice_to(value_counts(genres, set(genres)), 5) ELSE <<>>,
         event_count |-> Len(tod_events),
         confidence |-> round3(Len(tod_events), Len(user_events))]

\* Lines 560-588: the timeslot profiles of one user id as written.
user_ctx(user_events) ==
    [tod \in group_keys(user_events, "time_of_day") |->
        timeslot_profile(group_rows(user_events, "time_of_day", tod), user_events)]

\* The user ids of the model in sorted order, the order groupby visits its
\* groups in; capitals sort before small letters.
SortedUserIds == <<s_Ann, s_ann, s_bob>>

\* The profiles dict; of two ids with one lowercase form the one visited
\* later is kept.
build_time_context_profiles(merged) ==
    LET kept == meaningful(merged)
        ids == group_keys(kept, "user_id")
        last_written(uid) ==
            CHOOSE i \in DOMAIN SortedUserIds :
                /\ SortedUserIds[i] \in ids /\ lower(SortedUserIds[i]) = uid
                /\ \A j \in DOMAIN SortedUserIds :
                      (SortedUserIds[j] \in ids /\ lower(SortedUserIds[j]) = uid)
                          => j <= i
    IN  [uid \in {lower(id) : id \in ids} |->
            user_ctx(group_rows(kept, "user_id", SortedUserIds[last_written(uid)]))]

-----------------------------------------------------------------------------
(* Inputs of the context-function calls *)

\* Profiles with and without a stored energy preference.
VectorProfiles == Profiles \cup {[top_genres |-> <<>>]}
VectorMoods == TargetMoods
VectorActivities == {<<>>, s_workout, s_study, s_relax, s_commute, s_nap}

SongGenres == {<<>>, s_pop, s_Pop, s_PoP, s_rock, s_jazz}
TopGenreLists == {<<>>, <<s_pop, s_rock>>, <<s_Pop>>, <<s_jazz>>, <<s_rock, s_PoP>>}

\* Components of 0, 1/180, 1/2 and 1.
Components == {0, 1, HalfFeature, FeatureUnit}
Hours == 0 .. 23

\* Rows of the merged table: plays in three timeslots, a play with no
\* timeslot, a skipped play, an event that is no play, and plays of two more
\* user ids, one differing from the first in case only.
EventRows ==
    {Event(s_ann, s_morning, s_play, FALSE, s_happy, s_study, s_pop),
     Event(s_ann, s_evening, s_play, FALSE, s_sad, <<>>, <<>>),
     Event(s_ann, s_night, s_play, FALSE, <<>>, s_relax, s_rock),
     Event(s_ann, <<>>, s_play, FALSE, s_sad, <<>>, s_pop),
     Event(s_ann, s_morning, s_play, TRUE, s_hype, s_workout, s_rock),
     Event(s_ann, s_morning, s_pause, FALSE, s_hype, s_workout, s_rock),
     Event(s_Ann, s_night, s_play, FALSE, s_sad, s_relax, s_pop),
     Event(s_bob, s_morning, s_play, FALSE, s_chill, s_commute, s_rock)}

BuildUserAudioVector ==
    /\ call = NoCall
    /\ \E profile \in VectorProfiles, mood \in VectorMoods,
          activity \in VectorActivities :
        /\ call' = [op |-> "build_user_audio_vector", user_profile |-> profile,
                    mood |-> mood, activity |-> activity]
        /\ ret' = build_user_audio_vector(profile, mood, activity)
    /\ UNCHANGED <<indexes, track_lookup, service>>

GenreMatchScore ==
    /\ call = NoCall
    /\ \E song_genre \in SongGenres, user_genres \in TopGenreLists :
        /\ call' = [op |-> "_genre_match_score", song_genre |-> song_genre,
                    user_genres |-> user_genres]
        /\ ret' = genre_match_score(song_genre, user_genres)
    /\ UNCHANGED <<indexes, track_lookup, service>>

CosineSimilarity ==
    /\ call = NoCall
    /\ \E n \in 0 .. MaxVecLen :
       \E a \in [1 .. n -> Components], b \in [1 .. n -> Components] :
        /\ call' = [op |-> "cosine_similarity", a |-> a, b |-> b]
        /\ ret' = cosine_similarity(a, b)
    /\ UNCHANGED <<indexes, track_lookup, service>>

HourToTimeslot ==
    /\ call = NoCall
    /\ \E hour \in Hours :
        /\ call' = [op |-> "hour_to_timeslot", hour |-> hour]
        /\ ret' = hour_to_timeslot(hour)
    /\ UNCHANGED <<indexes, track_lookup, service>>

BuildTimeContextProfiles ==
    /\ call = NoCall
    /\ \E merged \in SeqsUpTo(EventRows, MaxEvents) :
        /\ call' = [op |-> "build_time_context_profiles", merged |-> merged]
        /\ ret' = build_time_context_profiles(merged)
    /\ UNCHANGED <<indexes, track_lookup, service>>

NextContext ==
    BuildUserAudioVector \/ GenreMatchScore \/ CosineSimilarity \/ HourToTimeslot
        \/ BuildTimeContextProfiles \/ Return

SpecContext == InitRank /\ [][NextContext]_vars

-----------------------------------------------------------------------------
(* Startup: load_all_data and the loaders it calls.  A stored energy        *)
(* preference, a mood weight and every other profile number is in units of  *)
(* 1/1000.                                                                   *)

s_folk == <<"f", "o", "l", "k">>
s_soul == <<"s", "o", "u", "l">>
s_funk == <<"f", "u", "n", "k">>
s_mobile == <<"m", "o", "b", "i", "l", "e">>
s_medium == <<"m", "e", "d", "i", "u", "m">>
s_track_id == <<"t", "r", "a", "c", "k", "_", "i", "d">>
s_title == <<"t", "i", "t", "l", "e">>

\* dict.update(other): the keys of other win.
update(dict, other) == other @@ dict

\* A JSON value of the index file: an array, or a value that is no array.
JsonList(items) == [kind |-> "list", items |-> items]
JsonNumber(n) == [kind |-> "number", number |-> n]

\* isinstance(postings, list)
isinstance_list(value) == value.kind = "list"

\* json.load on the value of one token.
json_value(value) == IF isinstance_list(value) THEN value.items ELSE value.number

\* json.load(f): the document as Python dicts and lists.
json_load(document) ==
    [key \in DOMAIN document |->
        [tok \in DOMAIN document[key] |-> json_value(document[key][tok])]]

required == {"genre", "mood", "title", "artist", "energy"}

\* load_indexes that checks the categories but not the postings.
load_indexes_unchecked(document) ==
    IF required \ DOMAIN document # {}
    THEN [raised |-> "ValueError", value |-> EmptyDict]
    ELSE [raised |-> "", value |-> json_load(document)]

\* load_indexes: the loaded index, or the error raised.
load_indexes(document) ==
    IF required \ DOMAIN document # {}
    THEN [raised |-> "ValueError", value |-> EmptyDict]
    ELSE IF \E key \in required : \E tok \in DOMAIN document[key] :
                ~isinstance_list(document[key][tok])
    THEN [raised |-> "ValueError", value |-> EmptyDict]
    ELSE [raised |-> "", value |-> json_load(document)]

\* A catalog CSV: its header and its rows, each a dict column -> value.
CatalogFile(columns, rows) == [columns |-> columns, rows |-> rows]

\* df.set_index("track_id").to_dict(orient="index")
to_dict_by_track_id(rows) ==
    [tid \in {rows[i].track_id : i \in DOMAIN rows} |->
        LET row == rows[CHOOSE i \in DOMAIN rows : rows[i].track_id = tid]
        IN  [column \in DOMAIN row \ {"track_id"} |-> row[column]]]

\* load_catalog: the track lookup, or the error raised.
load_catalog(file) ==
    IF "track_id" \notin file.columns
    THEN [raised |-> "ValueError", value |-> EmptyDict]
    ELSE [raised |-> "", value |-> to_dict_by_track_id(file.rows)]

RECURSIVE split(_, _, _)
\* str.split(","), from position i on, cur being the piece read so far.
split(text, i, cur) ==
    IF i > Len(text) THEN <<cur>>
    ELSE IF text[i] = "," THEN <<cur>> \o split(text, i + 1, <<>>)
    ELSE split(text, i + 1, Append(cur, text[i]))

RECURSIVE strip(_)
\* str.strip(), on texts whose only whitespace is the space.
strip(text) ==
    IF text = <<>> THEN <<>>
    ELSE IF Head(text) = " " THEN strip(Tail(text))
    ELSE IF text[Len(text)] = " " THEN strip(SubSeq(text, 1, Len(text) - 1))
    ELSE text

\* [g.strip() for g in cell.split(",")]
split_genres(cell) ==
    LET pieces == split(cell, 1, <<>>)
    IN  [i \in DOMAIN pieces |-> strip(pieces[i])]

\* A dict cell of USER_PROFILE.csv: a literal that parses to "value", or a
\* text that does not parse.
DictCell(value) == [parses |-> TRUE, value |-> value]
BadCell == [parses |-> FALSE]

\* _parse_dict_string: the dict, or {} when the text does not parse.
parse_dict_string(cell) == IF cell.parses THEN cell.value ELSE EmptyDict

\* Lines 89-98: the profile of one row of USER_PROFILE.csv.
profile_of_row(row) ==
    [user_id |-> row.user_id,
     top_genres |-> split_genres(row.top_genres),
     preferred_moods |-> parse_dict_string(row.preferred_moods),
     avg_energy_preference |-> row.avg_energy_preference,
     listening_time_profile |-> parse_dict_string(row.listening_time_profile),
     skip_rate |-> row.skip_rate,
     platform_mix |-> parse_dict_string(row.platform_mix)]

RECURSIVE bootstrap_profiles(_, _)
\* Lines 86-98: one store per row in file order, a later row of the same
\* lowercased id replacing an earlier one.
bootstrap_profiles(profiles, rows) ==
    IF rows = <<>> THEN profiles
    ELSE bootstrap_profiles(
             update(profiles, lower(Head(rows).user_id) :> profile_of_row(Head(rows))),
             Tail(rows))

\* A file that may not exist.
NoFile == [exists |-> FALSE]
FileOf(content) == [exists |-> TRUE, content |-> content]

\* load_all_data: the stores it leaves and the exception it ends in, if any.
\* The statements run in order and an exception ends the function, so what
\* was stored before it stays stored.
load_all_data(index_document, catalog_file, profiles_file, time_ctx_file) ==
    LET loaded == load_indexes(index_document)
        catalog == load_catalog(catalog_file)
        before == [indexes |-> indexes, track_lookup |-> track_lookup,
                   user_profiles |-> user_profiles,
                   time_context_profiles |-> time_context_profiles,
                   raised |-> ""]
        step1 == [before EXCEPT !.indexes = update(@, loaded.value)]
        step2 == [step1 EXCEPT !.track_lookup = update(@, catalog.value)]
        step3 == [step2 EXCEPT
                     !.user_profiles = bootstrap_profiles(@, profiles_file.content)]
        step4 == IF time_ctx_file.exists
                 THEN [step3 EXCEPT
                          !.time_context_profiles = update(@, time_ctx_file.content)]
                 ELSE step3
    IN  IF loaded.raised # "" THEN [before EXCEPT !.raised = loaded.raised]
        ELSE IF catalog.raised # "" THEN [step1 EXCEPT !.raised = catalog.raised]
        ELSE IF ~profiles_file.exists
             THEN [step2 EXCEPT !.raised = "FileNotFoundError"]
        ELSE step4

\* The application before its startup handler has run: the stores of data.py
\* as the module creates them.
InitStartup ==
    /\ indexes = EmptyDict
    /\ track_lookup = EmptyDict
    /\ user_profiles = EmptyDict
    /\ time_context_profiles = EmptyDict
    /\ spotify_tokens = EmptyDict
    /\ requests = {}
    /\ phase = "startup"
    /\ call = NoCall
    /\ ret = {}

\* The startup handler, on files drawn from the given sets.  An exception
\* out of it ends the application before it serves a request.
LoadAllData(index_documents, catalog_files, profiles_files, time_ctx_files) ==
    /\ phase = "startup"
    /\ call = NoCall
    /\ \E index_document \in index_documents, catalog_file \in catalog_files,
          profiles_file \in profiles_files, time_ctx_file \in time_ctx_files :
        LET after == load_all_data(index_document, catalog_file, profiles_file,
                                   time_ctx_file)
        IN  /\ indexes' = after.indexes
            /\ track_lookup' = after.track_lookup
            /\ user_profiles' = after.user_profiles
            /\ time_context_profiles' = after.time_context_profiles
            /\ phase' = IF after.raised = "" THEN "serving" ELSE "failed"
            /\ call' = [op |-> "load_all_data", index_document |-> index_document,
                        catalog_file |-> catalog_file, profiles_file |-> profiles_file,
                        time_ctx_file |-> time_ctx_file]
            /\ ret' = after.raised
    /\ UNCHANGED <<spotify_tokens, requests>>

-----------------------------------------------------------------------------
(* Files of the startup *)

\* The document json.load decodes to an index.
json_document(index) ==
    [key \in DOMAIN index |->
        [tok \in DOMAIN index[key] |-> JsonList(index[key][tok])]]

\* The document of MainIndexes with only the categories "keys", the first
\* token of category "bad" (if any) mapping to a number.
IndexDocument(keys, bad) ==
    [key \in keys |->
        [tok \in DOMAIN MainIndexes[key] |->
            IF key = bad /\ tok = (CHOOSE t \in DOMAIN MainIndexes[key] : TRUE)
            THEN JsonNumber(7) ELSE JsonList(MainIndexes[key][tok])]]

\* Every choice of categories, with no malformed postings or with those of
\* one category malformed, and a document with a sixth category.
IndexDocuments ==
    {IndexDocument(keys, bad) : keys \in SUBSET required, bad \in required \cup {""}}
    \cup {json_document(MainIndexes) @@ ("album" :> (s_love :> JsonList(<<1>>)))}

CatalogColumns == DOMAIN MainCatalog[1]

MainCatalogFile ==
    CatalogFile(CatalogColumns \cup {"track_id"},
                [i \in 1 .. 3 |-> MainCatalog[i] @@ [track_id |-> i]])

\* A catalog whose id column has another name.
NoIdCatalogFile ==
    CatalogFile(CatalogColumns \cup {"id"},
                [i \in 1 .. 3 |-> MainCatalog[i] @@ [id |-> i]])

\* A catalog with a header and no row.
EmptyCatalogFile == CatalogFile(CatalogColumns \cup {"track_id"}, <<>>)

CatalogFiles == {MainCatalogFile, NoIdCatalogFile, EmptyCatalogFile}

EvenMoods == (s_happy :> 250) @@ (s_chill :> 250) @@ (s_hype :> 250) @@ (s_sad :> 250)

DayProfile == (s_morning :> 330) @@ (s_afternoon :> 340) @@ (s_night :> 330)

MobileOnly == s_mobile :> 1000

ProfileRow(user_id, top_genres, moods, avg_energy) ==
    [user_id |-> user_id, top_genres |-> top_genres, preferred_moods |-> moods,
     avg_energy_preference |-> avg_energy,
     listening_time_profile |-> DictCell(DayProfile), skip_rate |-> 100,
     platform_mix |-> DictCell(MobileOnly)]

cell_pop_rock == s_pop \o <<",", " ">> \o s_rock

\* Six genres in one cell.
cell_six_genres ==
    s_pop \o <<",">> \o s_rock \o <<",">> \o s_jazz \o <<",">> \o s_folk
        \o <<",">> \o s_soul \o <<",">> \o s_funk

RowAnn == ProfileRow(s_Ann, cell_pop_rock, DictCell(EvenMoods), 850)
RowAnnSix == ProfileRow(s_ann, cell_six_genres, BadCell, 200)
RowBob == ProfileRow(s_bob, <<>>, DictCell(EvenMoods), 500)

ProfilesFiles ==
    {NoFile, FileOf(<<>>), FileOf(<<RowAnn>>), FileOf(<<RowAnn, RowBob>>),
     FileOf(<<RowAnn, RowAnnSix>>)}

\* One stored timeslot context.
Context(mood, activity, genres, count, confidence) ==
    [typical_mood |-> mood, typical_activity |-> activity, top_genres |-> genres,
     event_count |-> count, confidence |-> confidence]

\* time_context_profiles.json with the mornings of one user.
MainTimeContext == s_ann :> (s_morning :> Context(s_sad, <<>>, <<s_pop>>, 4, 1000))

TimeContextFiles == {NoFile, FileOf(MainTimeContext)}

Startup == LoadAllData(IndexDocuments, CatalogFiles, ProfilesFiles, TimeContextFiles)

NextStartup == Startup \/ Return

SpecStartup == InitStartup /\ [][NextStartup]_vars

-----------------------------------------------------------------------------
(* The user-profile store: onboarding, the Spotify callback and the         *)
(* spotify_profile coroutine, which is suspended at each of its fetches.    *)
(* Every action below is one uninterrupted run of a handler: a whole        *)
(* synchronous handler, or a coroutine from one await to the next.          *)

MaxRequests == 2        \* spotify_profile coroutines suspended at one time
MaxFavorites == 6       \* entries in the favorite_genres of an onboarding

\* data.user_profiles[key] = profile that keeps the mood weights stored
\* before.
store_profile_keeping_moods(profiles, key, profile) ==
    IF key \in DOMAIN profiles
    THEN update(profiles,
                key :> [profile EXCEPT !.preferred_moods = profiles[key].preferred_moods])
    ELSE update(profiles, key :> profile)

\* data.user_profiles[key] = profile
store_profile(profiles, key, profile) == update(profiles, key :> profile)

\* Lines 34-51 of users.py: the profile onboarding builds.
onboarding_profile(req) ==
    [user_id |-> req.user_id,
     top_genres |-> slice_to(req.favorite_genres, 5),
     preferred_moods |-> EvenMoods,
     avg_energy_preference |-> 500,
     listening_time_profile |-> DayProfile,
     skip_rate |-> 0,
     platform_mix |-> MobileOnly]

\* POST /user/onboarding.  Its response repeats the request's user id.
Onboarding(onboarding_requests) ==
    /\ phase = "serving"
    /\ call = NoCall
    /\ \E req \in onboarding_requests :
        user_profiles' = store_profile(user_profiles, lower(req.user_id),
                                       onboarding_profile(req))
    /\ UNCHANGED <<indexes, track_lookup, time_context_profiles, spotify_tokens,
                   requests, phase, call, ret>>

\* GET /callback when the code exchange and the profile fetch succeed: the
\* tokens are stored under the Spotify user id as Spotify spells it.
SpotifyCallback(spotify_ids) ==
    /\ phase = "serving"
    /\ call = NoCall
    /\ \E id \in spotify_ids :
        spotify_tokens' =
            update(spotify_tokens,
                   id :> [access_token |-> <<"token", id>>,
                          refresh_token |-> <<"refresh", id>>,
                          display_name |-> id])
    /\ UNCHANGED <<indexes, track_lookup, user_profiles, time_context_profiles,
                   requests, phase, call, ret>>

\* An entry of a Spotify audio-features response: the features of a track,
\* or null.
Feature(id, energy, valence, danceability) ==
    [present |-> TRUE, id |-> id, energy |-> energy, valence |-> valence,
     danceability |-> danceability]
Null == [present |-> FALSE]

\* An item of the recently-played response.  played_at is the hour of a
\* timestamp that parses, or a text that is empty or does not parse; either
\* way such an item is skipped.
Played(hour, track_id) == [parses |-> TRUE, hour |-> hour, track_id |-> track_id]
PlayedUnparsed(track_id) == [parses |-> FALSE, track_id |-> track_id]

RECURSIVE flatten(_)
\* The entries of the lists of a list, in order.
flatten(lists) == IF lists = <<>> THEN <<>> ELSE Head(lists) \o flatten(Tail(lists))

\* Lines 83-87: the genres of the top artists by descending count, equally
\* frequent ones in order of first appearance, the first five.
top_genres_of(top_artists) ==
    LET genres == flatten([i \in DOMAIN top_artists |-> top_artists[i].genres])
    IN  slice_to(value_counts(genres, set(genres)), 5)

\* Line 90: the ids of the top tracks that have one.
track_ids_of(top_tracks) ==
    LET keep(t) == t.id # ""
        kept == SelectSeq(top_tracks, keep)
    IN  [i \in DOMAIN kept |-> kept[i].id]

\* [f for f in response if f]
present_features(response) ==
    LET keep(f) == f.present
    IN  SelectSeq(response, keep)

\* The sum of one feature over a list of features.
feature_sum(features, name) == sum_seq([i \in DOMAIN features |-> features[i][name]])

\* Lines 97-104: the averages of the audio features as <<sum, count>>, 0.5
\* without features.
averages_of(features) ==
    IF features # <<>>
    THEN [energy |-> <<feature_sum(features, "energy"), Len(features)>>,
          valence |-> <<feature_sum(features, "valence"), Len(features)>>,
          danceability |-> <<feature_sum(features, "danceability"), Len(features)>>]
    ELSE [energy |-> <<500, 1>>, valence |-> <<500, 1>>, danceability |-> <<500, 1>>]

\* average > hundredths / 100, the average being <<sum, count>>.
above(average, hundredths) == average[1] > 10 * hundredths * average[2]
below(average, hundredths) == average[1] < 10 * hundredths * average[2]

\* Lines 107-112: the mood weights read off the average valence.
preferred_moods_of(avg_valence) ==
    IF above(avg_valence, 65)
    THEN (s_happy :> 400) @@ (s_hype :> 300) @@ (s_chill :> 200) @@ (s_sad :> 100)
    ELSE IF above(avg_valence, 45)
    THEN (s_chill :> 350) @@ (s_happy :> 300) @@ (s_hype :> 200) @@ (s_sad :> 150)
    ELSE (s_sad :> 350) @@ (s_chill :> 300) @@ (s_happy :> 200) @@ (s_hype :> 150)

\* Lines 117-128: the played track ids of each timeslot, in order; items
\* without a timestamp that parses or without a track id are skipped.
timeslot_tracks_of(recently_played) ==
    LET usable(item) == item.parses /\ item.track_id # ""
        items == SelectSeq(recently_played, usable)
        slots == {hour_to_timeslot(items[i].hour) : i \in DOMAIN items}
    IN  [ts \in slots |->
            LET in_slot(item) == hour_to_timeslot(item.hour) = ts
                played == SelectSeq(items, in_slot)
            IN  [i \in DOMAIN played |-> played[i].track_id]]

\* Line 130: the distinct recent track ids.
all_recent_ids_of(timeslot_tracks) ==
    UNION {set(timeslot_tracks[ts]) : ts \in DOMAIN timeslot_tracks}

\* Lines 134-136: the features of the response by track id.
recent_features_map_of(response) ==
    LET features == present_features(response)
    IN  [id \in {features[i].id : i \in DOMAIN features} |->
            features[CHOOSE i \in DOMAIN features :
                        features[i].id = id
                        /\ \A j \in DOMAIN features : features[j].id = id => j <= i]]

\* Lines 145-154: the mood inferred from a slot's averages.
inferred_mood_of(avg_valence, avg_energy) ==
    IF above(avg_valence, 65) /\ above(avg_energy, 65) THEN s_hype
    ELSE IF above(avg_valence, 55) THEN s_happy
    ELSE IF below(avg_energy, 35) THEN s_sad
    ELSE IF below(avg_valence, 40) THEN s_focus
    ELSE s_chill

\* Lines 156-163: the activity inferred from a slot's average energy.
inferred_activity_of(avg_energy) ==
    IF above(avg_energy, 70) THEN s_workout
    ELSE IF below(avg_energy, 30) THEN s_relax
    ELSE IF below(avg_energy, 45) THEN s_study
    ELSE s_commute

\* The features of the tracks of one slot that the map knows, one per play.
slot_features(tids, recent_features_map) ==
    LET known(t) == t \in DOMAIN recent_features_map
        kept == SelectSeq(tids, known)
    IN  [i \in DOMAIN kept |-> recent_features_map[kept[i]]]

\* Lines 138-171: the context of every slot that has features.
spotify_time_ctx_of(timeslot_tracks, recent_features_map, top_genres) ==
    LET recent == Cardinality(all_recent_ids_of(timeslot_tracks))
        with_features == {ts \in DOMAIN timeslot_tracks :
                             slot_features(timeslot_tracks[ts], recent_features_map) # <<>>}
    IN  [ts \in with_features |->
            LET feats == slot_features(timeslot_tracks[ts], recent_features_map)
                avg == averages_of(feats)
            IN  Context(inferred_mood_of(avg.valence, avg.energy),
                        inferred_activity_of(avg.energy), top_genres, Len(feats),
                        round3(Len(feats), IF recent > 1 THEN recent ELSE 1))]

\* The top genres the profile is built from, as if top_genres were shared by
\* the coroutines: those of another coroutine that has them, if there is one.
shared_top_genres(request, suspended) ==
    LET others == {r \in suspended \ {request} :
                      r.pc \in {"recently_played", "recent_features"}}
    IN  IF others # {} THEN (CHOOSE r \in others : TRUE).top_genres
        ELSE request.top_genres

\* top_genres is a local of the coroutine: a profile is built from the
\* coroutine's own.
own_top_genres(request, suspended) == request.top_genres

\* Lines 174-182: the profile spotify_profile builds.
spotify_profile_of(spotify_user_id, top_genres, preferred_moods, avg_energy) ==
    [user_id |-> spotify_user_id,
     top_genres |-> top_genres,
     preferred_moods |-> preferred_moods,
     avg_energy_preference |-> round3(avg_energy[1], avg_energy[2] * MilliUnit),
     listening_time_profile |-> DayProfile,
     skip_rate |-> 0,
     platform_mix |-> MobileOnly]

\* A coroutine suspended at the fetch "pc", with the locals it has so far.
Request(id, token, pc, top_artists, top_genres, track_ids, averages, timeslot_tracks) ==
    [spotify_user_id |-> id, access_token |-> token, pc |-> pc,
     top_artists |-> top_artists, top_genres |-> top_genres, track_ids |-> track_ids,
     averages |-> averages, timeslot_tracks |-> timeslot_tracks]

\* The call a response of spotify_profile answers.
sync_call(spotify_user_id) ==
    [op |-> "spotify_profile", spotify_user_id |-> spotify_user_id]

\* GET /spotify/profile/{id} up to its first fetch.  Without tokens for the
\* id it answers 404 at once.
SpotifyProfileStart(spotify_ids) ==
    /\ phase = "serving"
    /\ call = NoCall
    /\ \E id \in spotify_ids :
        IF id \in DOMAIN spotify_tokens
        THEN /\ Cardinality(requests) < MaxRequests
             /\ requests' = requests \cup
                    {Request(id, spotify_tokens[id].access_token, "top_artists", <<>>,
                             <<>>, <<>>, averages_of(<<>>), EmptyDict)}
             /\ UNCHANGED <<call, ret>>
        ELSE /\ call' = sync_call(id)
             /\ ret' = [status |-> 404]
             /\ UNCHANGED requests
    /\ UNCHANGED <<indexes, track_lookup, user_profiles, time_context_profiles,
                   spotify_tokens, phase>>

\* A failing fetch of a coroutine that stores its profile as it goes: what it
\* has so far is in the store when the error ends it.
SpotifyFetchFails_profile_stored ==
    /\ phase = "serving"
    /\ call = NoCall
    /\ \E r \in requests : \E status \in {401, 502} :
        /\ requests' = requests \ {r}
        /\ user_profiles' =
               store_profile(user_profiles, lower(r.spotify_user_id),
                             spotify_profile_of(r.spotify_user_id, r.top_genres,
                                                preferred_moods_of(r.averages.valence),
                                                r.averages.energy))
        /\ call' = sync_call(r.spotify_user_id)
        /\ ret' = [status |-> status]
    /\ UNCHANGED <<indexes, track_lookup, time_context_profiles, spotify_tokens, phase>>

\* A fetch that answers 401 or anything else but 200: _spotify_get raises and
\* the coroutine ends with that error.
SpotifyFetchFails ==
    /\ phase = "serving"
    /\ call = NoCall
    /\ \E r \in requests : \E status \in {401, 502} :
        /\ requests' = requests \ {r}
        /\ call' = sync_call(r.spotify_user_id)
        /\ ret' = [status |-> status]
    /\ UNCHANGED <<indexes, track_lookup, user_profiles, time_context_profiles,
                   spotify_tokens, phase>>

\* Line 79 to line 80: the top artists arrive, the top tracks are asked for.
TopArtistsArrive(responses) ==
    /\ phase = "serving"
    /\ call = NoCall
    /\ \E r \in requests : \E top_artists \in responses[r.spotify_user_id] :
        /\ r.pc = "top_artists"
        /\ requests' = (requests \ {r}) \cup
               {[r EXCEPT !.pc = "top_tracks", !.top_artists = top_artists]}
    /\ UNCHANGED <<indexes, track_lookup, user_profiles, time_context_profiles,
                   spotify_tokens, phase, call, ret>>

\* Line 80 to line 93 or 115: the top tracks arrive; their audio features are
\* asked for if there is a track, the recently played tracks otherwise.
TopTracksArrive(responses) ==
    /\ phase = "serving"
    /\ call = NoCall
    /\ \E r \in requests : \E top_tracks \in responses[r.spotify_user_id] :
        /\ r.pc = "top_tracks"
        /\ LET track_ids == track_ids_of(top_tracks)
           IN  requests' = (requests \ {r}) \cup
                   {[r EXCEPT !.pc = IF track_ids # <<>> THEN "audio_features"
                                     ELSE "recently_played",
                              !.top_genres = top_genres_of(r.top_artists),
                              !.track_ids = track_ids,
                              !.averages = averages_of(<<>>)]}
    /\ UNCHANGED <<indexes, track_lookup, user_profiles, time_context_profiles,
                   spotify_tokens, phase, call, ret>>

\* Line 93 to line 115: the audio features arrive, the recently played
\* tracks are asked for.
AudioFeaturesArrive(responses) ==
    /\ phase = "serving"
    /\ call = NoCall
    /\ \E r \in requests : \E response \in responses[r.spotify_user_id] :
        /\ r.pc = "audio_features"
        /\ requests' = (requests \ {r}) \cup
               {[r EXCEPT !.pc = "recently_played",
                          !.averages = averages_of(present_features(response))]}
    /\ UNCHANGED <<indexes, track_lookup, user_profiles, time_context_profiles,
                   spotify_tokens, phase, call, ret>>

\* Lines 173-201: the profile is stored under the lowercased id, and the time
\* context too unless it is empty; the coroutine returns both.  The
\* spotify_stats of the response repeat what was fetched.
finish_spotify_profile(r, recent_features_map) ==
    LET key == lower(r.spotify_user_id)
        top_genres == own_top_genres(r, requests)
        spotify_time_ctx ==
            spotify_time_ctx_of(r.timeslot_tracks, recent_features_map, top_genres)
        profile == spotify_profile_of(r.spotify_user_id, top_genres,
                                      preferred_moods_of(r.averages.valence),
                                      r.averages.energy)
    IN  /\ user_profiles' = store_profile(user_profiles, key, profile)
        /\ time_context_profiles' =
               IF DOMAIN spotify_time_ctx # {}
               THEN update(time_context_profiles, key :> spotify_time_ctx)
               ELSE time_context_profiles
        /\ requests' = requests \ {r}
        /\ call' = sync_call(r.spotify_user_id)
        /\ ret' = [status |-> 200,
                   body |-> [status |-> "ok", profile |-> profile,
                             time_context |-> spotify_time_ctx]]

\* Line 115 on: the recently played tracks arrive; with a usable track their
\* features are asked for, without one the profile is stored at once.
RecentlyPlayedArrive(responses) ==
    /\ phase = "serving"
    /\ call = NoCall
    /\ \E r \in requests : \E recently_played \in responses[r.spotify_user_id] :
        /\ r.pc = "recently_played"
        /\ LET timeslot_tracks == timeslot_tracks_of(recently_played)
           IN  IF all_recent_ids_of(timeslot_tracks) # {}
               THEN /\ requests' = (requests \ {r}) \cup
                           {[r EXCEPT !.pc = "recent_features",
                                      !.timeslot_tracks = timeslot_tracks]}
                    /\ UNCHANGED <<user_profiles, time_context_profiles, call, ret>>
               ELSE finish_spotify_profile(
                        [r EXCEPT !.timeslot_tracks = timeslot_tracks], EmptyDict)
    /\ UNCHANGED <<indexes, track_lookup, spotify_tokens, phase>>

\* Line 133 on: the features of the recent tracks arrive and the profile is
\* stored.
RecentFeaturesArrive(responses) ==
    /\ phase = "serving"
    /\ call = NoCall
    /\ \E r \in requests : \E response \in responses[r.spotify_user_id] :
        /\ r.pc = "recent_features"
        /\ finish_spotify_profile(r, recent_features_map_of(response))
    /\ UNCHANGED <<indexes, track_lookup, spotify_tokens, phase>>

-----------------------------------------------------------------------------
(* Users, accounts and files of the profile store *)

OnboardingRequest(user_id, favorite_genres) ==
    [user_id |-> user_id, favorite_genres |-> favorite_genres]

\* A list of favorites as long as allowed and one of a single genre.
FavoriteLists ==
    {<<s_jazz>>,
     SubSeq(<<s_funk, s_soul, s_folk, s_jazz, s_rock, s_pop, s_focus, s_chill>>,
            1, MaxFavorites)}

OnboardingRequests ==
    {OnboardingRequest(id, favorites) : id \in {s_Ann, s_bob}, favorites \in FavoriteLists}

\* Two Spotify accounts whose ids differ in case only.
SpotifyIds == {s_Ann, s_ann}

Artist(genres) == [genres |-> genres]
Track(id) == [id |-> id]

\* What Spotify answers for each account; an account's data may change
\* between two requests.
TopArtists ==
    [id \in SpotifyIds |->
    IF id = s_Ann
    THEN {<<Artist(<<s_pop, s_rock>>), Artist(<<s_rock>>)>>}
    ELSE {<<Artist(<<s_pop, s_rock, s_jazz>>), Artist(<<s_folk, s_soul, s_funk>>)>>}]

TopTracks ==
    [id \in SpotifyIds |->
    IF id = s_Ann THEN {<<Track("t1"), Track(""), Track("t2")>>}
    ELSE {<<>>, <<Track("t3")>>}]

AudioFeatures ==
    [id \in SpotifyIds |->
    IF id = s_Ann
    THEN {<<Feature("t1", 100, 200, 300), Null, Feature("t2", 400, 500, 600),
            Feature("t1", 500, 300, 300)>>}
    ELSE {<<Feature("t3", 900, 800, 700)>>}]

RecentlyPlayed ==
    [id \in SpotifyIds |->
    IF id = s_Ann
    THEN {<<>>,
          <<Played(7, "t1"), Played(8, "t1"), Played(11, "t1"), PlayedUnparsed("t2"),
            Played(22, "t2"), Played(23, "")>>}
    ELSE {<<Played(23, "")>>}]

RecentFeatures == [id \in SpotifyIds |-> {<<Feature("t1", 800, 700, 600), Null>>}]

\* USER_PROFILE.csv of the profile store: a row whose id differs in case
\* from its key, and a row of six genres.
StoreProfilesFiles == {FileOf(<<RowAnn, RowBob>>), FileOf(<<RowAnnSix, RowBob>>)}

StoreStartup ==
    LoadAllData({json_document(MainIndexes)}, {MainCatalogFile}, StoreProfilesFiles,
                {FileOf(MainTimeContext)})

NextStore ==
    \/ StoreStartup
    \/ Onboarding(OnboardingRequests)
    \/ SpotifyCallback(SpotifyIds)
    \/ SpotifyProfileStart(SpotifyIds)
    \/ SpotifyFetchFails
    \/ TopArtistsArrive(TopArtists)
    \/ TopTracksArrive(TopTracks)
    \/ AudioFeaturesArrive(AudioFeatures)
    \/ RecentlyPlayedArrive(RecentlyPlayed)
    \/ RecentFeaturesArrive(RecentFeatures)
    \/ Return

SpecStore == InitStartup /\ [][NextStore]_vars

-----------------------------------------------------------------------------
(* The read endpoints: /recommend, /auto-suggest and /user/{user_id} *)

\* data.user_profiles.get(user_id): the key as the caller spells it.
get_profile_exact_case(profiles, user_id) ==
    IF user_id \in DOMAIN profiles THEN profiles[user_id] ELSE <<>>

\* data.user_profiles.get(user_id.lower()): the profile, or None.
get_profile(profiles, user_id) ==
    IF lower(user_id) \in DOMAIN profiles THEN profiles[lower(user_id)] ELSE <<>>

\* Lines 31-36 of recommend.py: the profile of a user the store does not
\* know.
default_profile ==
    [top_genres |-> <<>>, preferred_moods |-> EmptyDict, avg_energy_preference |-> 500,
     skip_rate |-> 0]

\* The table activity_energy of the two handlers: the energy label of an
\* activity.
activity_energy_label ==
    (s_workout :> s_energetic) @@ (s_study :> s_calm) @@ (s_relax :> s_calm)
    @@ (s_commute :> s_medium)

\* The table of mood_to_energy; None for any other mood.
mood_to_energy(mood) ==
    LET table == (s_hype :> s_energetic) @@ (s_happy :> s_medium) @@ (s_chill :> s_calm)
                 @@ (s_sad :> s_calm) @@ (s_focus :> s_medium)
    IN  IF mood \in DOMAIN table THEN table[mood] ELSE <<>>

\* activity_energy.get(activity) if activity else mood_to_energy(mood)
energy_filter(mood, activity) ==
    IF activity # <<>>
    THEN (IF activity \in DOMAIN activity_energy_label THEN activity_energy_label[activity]
          ELSE <<>>)
    ELSE mood_to_energy(mood)

\* The stored profile as the ranker reads it: the energy preference, kept in
\* thousandths, in the unit of the audio features.
as_user_profile(profile) ==
    [profile EXCEPT !.avg_energy_preference = (@ * FeatureUnit) \div MilliUnit]

RECURSIVE list_of(_)
\* list(set) of track ids.  The order of a set's iteration is not specified;
\* the ranking sorts by a total key, so the ascending order stands for all.
list_of(ids) ==
    IF ids = {} THEN <<>>
    ELSE LET least == CHOOSE x \in ids : \A y \in ids : x <= y
         IN  <<least>> \o list_of(ids \ {least})

\* f"{sim:.0%}" of a similarity in 1/10000: the percent, half to even.
percent(sim) ==
    LET q == sim \div 100
        r == sim % 100
    IN  IF r > 50 \/ (r = 50 /\ q % 2 = 1) THEN q + 1 ELSE q

\* f"{song_energy:.2f}" of an energy in 1/180: the hundredths.
two_decimals(energy) ==
    LET q == (100 * energy) \div FeatureUnit
        r == (100 * energy) % FeatureUnit
    IN  IF 2 * r > FeatureUnit \/ (2 * r = FeatureUnit /\ q % 2 = 1) THEN q + 1 ELSE q

\* Lines 484-485 without their test: the fallback clause is always appended.
with_fallback_always(reasons) == Append(reasons, <<"context filters">>)

\* Lines 484-485: the fallback clause if no rule appended one.
with_fallback(reasons) ==
    IF reasons = <<>> THEN << <<"context filters">> >> ELSE reasons

\* generate_explanation: the clauses in the order they are appended; the
\* text joins them with " · ".  The song has its genre and mood filled.
generate_explanation(song, breakdown, user_genres, mood, activity) ==
    LET sim == IF "audio_similarity" \in DOMAIN breakdown THEN breakdown.audio_similarity
               ELSE 0
        song_energy == IF "energy" \in DOMAIN song THEN song.energy ELSE HalfFeature
        song_mood == IF "mood_bucket" \in DOMAIN song THEN song.mood_bucket ELSE <<>>
        song_genre == IF "genre" \in DOMAIN song THEN song.genre ELSE <<>>
        pop == IF "popularity" \in DOMAIN song THEN song.popularity ELSE 0
        similarity ==
            IF sim >= 9500 THEN << <<"excellent match", percent(sim)>> >>
            ELSE IF sim >= 8500 THEN << <<"strong similarity", percent(sim)>> >>
            ELSE <<>>
        energy ==
            IF activity = <<>> THEN <<>>
            ELSE IF activity = s_workout /\ 10 * song_energy >= 7 * FeatureUnit
            THEN << <<"high energy", two_decimals(song_energy), activity>> >>
            ELSE IF activity \in {s_study, s_relax} /\ 100 * song_energy <= 35 * FeatureUnit
            THEN << <<"low energy", two_decimals(song_energy), activity>> >>
            ELSE <<>>
        mood_clause ==
            IF song_mood = mood THEN << <<"mood matches", song_mood>> >>
            ELSE IF (IF "mood_match" \in DOMAIN breakdown THEN breakdown.mood_match ELSE 0) > 0
            THEN << <<"mood adjacent", song_mood, mood>> >>
            ELSE <<>>
        genre ==
            IF \E i \in DOMAIN user_genres : lower(user_genres[i]) = lower(song_genre)
            THEN << <<"top genre", song_genre>> >> ELSE <<>>
        popularity ==
            IF pop >= 75 THEN << <<"popular", pop>> >> ELSE <<>>
    IN  with_fallback(similarity \o energy \o mood_clause \o genre \o popularity)

\* track_to_result that builds a result for any id, with or without a row.
track_to_result_unchecked(tid, score, lookup) ==
    [track_id |-> tid, song |-> IF has_row(lookup, tid) THEN lookup[tid] ELSE EmptyDict,
     score |-> round4(score)]

\* track_to_result: the SongResult of a track with the rounded score, None
\* for a track without a row.  The rows of the catalog have every column
\* filled.
track_to_result(tid, score, lookup) ==
    IF ~has_row(lookup, tid) THEN <<>>
    ELSE [track_id |-> tid, song |-> lookup[tid], score |-> round4(score)]

\* Lines 64-75 and 126-136: the results of the ranked tracks that have a row,
\* each with its breakdown and explanation.
results_of(ranked, lookup, profile, mood, activity) ==
    LET has_result(entry) == track_to_result(entry[1], entry[2], lookup) # <<>>
        kept == SelectSeq(ranked, has_result)
    IN  [i \in DOMAIN kept |->
            track_to_result(kept[i][1], kept[i][2], lookup)
            @@ [score_breakdown |-> kept[i][3],
                explanation |->
                    generate_explanation(
                        lookup[kept[i][1]], kept[i][3],
                        IF "top_genres" \in DOMAIN profile THEN profile.top_genres ELSE <<>>,
                        mood, activity)]]

\* Lines 38-75 and 100-136: both stages and the results for a profile and a
\* context.
recommend_for(profile, genres, mood, activity, top_k, idx, lookup) ==
    LET energy == energy_filter(mood, activity)
        candidates == list_of(retrieve_candidates(idx, genres, mood, energy, <<>>, <<>>))
        ranked == rank_candidates_by_features(candidates, lookup, as_user_profile(profile),
                                              mood, activity, top_k)
    IN  results_of(ranked, lookup, profile, mood, activity)

\* The answer of a handler: a body with status 200, or the HTTPException.
Ok(body) == [status |-> 200, body |-> body]
NotFound(user_id) == [status |-> 404, detail |-> user_id]

\* POST /recommend
recommend(req, profiles, idx, lookup) ==
    LET stored == get_profile(profiles, req.user_id)
        profile == IF stored # <<>> THEN stored ELSE default_profile
    IN  Ok(recommend_for(profile, profile.top_genres, req.mood, req.activity, req.top_k,
                         idx, lookup))

\* _TIME_DEFAULTS replaced by the fallback of its lookup in every slot.
TIME_DEFAULTS_fallback_only ==
    [ts \in {s_morning, s_afternoon, s_evening, s_night} |->
        [typical_mood |-> s_chill, typical_activity |-> s_relax]]

\* _TIME_DEFAULTS
TIME_DEFAULTS ==
    (s_morning :> [typical_mood |-> s_focus, typical_activity |-> s_commute])
    @@ (s_afternoon :> [typical_mood |-> s_happy, typical_activity |-> s_study])
    @@ (s_evening :> [typical_mood |-> s_chill, typical_activity |-> s_relax])
    @@ (s_night :> [typical_mood |-> s_sad, typical_activity |-> s_relax])

\* GET /auto-suggest/{user_id} at an hour of the clock.
auto_suggest(user_id, top_k, hour, profiles, time_contexts, idx, lookup) ==
    LET uid == lower(user_id)
        profile == get_profile(profiles, user_id)
        timeslot == hour_to_timeslot(hour)
        used_history == uid \in DOMAIN time_contexts
                        /\ timeslot \in DOMAIN time_contexts[uid]
        ctx == IF used_history /\ DOMAIN time_contexts[uid][timeslot] # {}
               THEN time_contexts[uid][timeslot] ELSE TIME_DEFAULTS[timeslot]
        mood == ctx.typical_mood
        activity == IF "typical_activity" \in DOMAIN ctx THEN ctx.typical_activity ELSE <<>>
        ctx_genres == IF "top_genres" \in DOMAIN ctx THEN ctx.top_genres ELSE <<>>
        genres == IF ctx_genres # <<>> THEN ctx_genres
                  ELSE IF "top_genres" \in DOMAIN profile THEN profile.top_genres ELSE <<>>
    IN  IF profile = <<>> THEN NotFound(user_id)
        ELSE Ok([inferred_context |->
                    [time_of_day |-> timeslot, current_hour |-> hour,
                     suggested_mood |-> mood, suggested_activity |-> activity,
                     genres_used |-> genres,
                     confidence |-> IF "confidence" \in DOMAIN ctx THEN ctx.confidence ELSE 0,
                     based_on_history |-> used_history,
                     reason |-> IF used_history THEN <<"usually", mood, activity, timeslot>>
                                ELSE <<"suggested for", timeslot>>],
                 tracks |-> recommend_for(profile, genres, mood, activity, top_k, idx,
                                          lookup)])

\* GET /user/{user_id}
get_user_profile(user_id, profiles) ==
    LET profile == get_profile(profiles, user_id)
    IN  IF profile = <<>> THEN NotFound(user_id) ELSE Ok(profile)

\* A request to /recommend.
Recommend(user_ids, moods, activities, top_ks) ==
    /\ phase = "serving"
    /\ call = NoCall
    /\ \E user_id \in user_ids, mood \in moods, activity \in activities, top_k \in top_ks :
        /\ call' = [op |-> "recommend", user_id |-> user_id, mood |-> mood,
                    activity |-> activity, top_k |-> top_k]
        /\ ret' = recommend(call', user_profiles, indexes, track_lookup)
    /\ UNCHANGED <<indexes, track_lookup, service>>

\* A request to /auto-suggest at some hour of the day.
AutoSuggest(user_ids, top_ks, hours) ==
    /\ phase = "serving"
    /\ call = NoCall
    /\ \E user_id \in user_ids, top_k \in top_ks, hour \in hours :
        /\ call' = [op |-> "auto_suggest", user_id |-> user_id, top_k |-> top_k,
                    hour |-> hour]
        /\ ret' = auto_suggest(user_id, top_k, hour, user_profiles, time_context_profiles,
                               indexes, track_lookup)
    /\ UNCHANGED <<indexes, track_lookup, service>>

\* A request to /user/{user_id}.
GetUserProfile(user_ids) ==
    /\ phase = "serving"
    /\ call = NoCall
    /\ \E user_id \in user_ids :
        /\ call' = [op |-> "get_user_profile", user_id |-> user_id]
        /\ ret' = get_user_profile(user_id, user_profiles)
    /\ UNCHANGED <<indexes, track_lookup, service>>

-----------------------------------------------------------------------------
(* Requests to the read endpoints *)

\* Two spellings of one user, another user, and a user nobody stores.
UserIds == {s_Ann, s_ann, s_bob, s_nap}

\* Two moods of the index, a mood no table knows and the empty text.
RequestMoods == {s_happy, s_sad, s_nap, <<>>}

\* No activity, two of the table and one the table does not know.
RequestActivities == {<<>>, s_workout, s_relax, s_nap}

\* A negative top_k, one below the catalog's size and the default.
RequestTopKs == {0 - 1, 2, 20}

\* USER_PROFILE.csv of the read endpoints: no user, or ann and bob.
ServiceProfilesFiles == {FileOf(<<>>), FileOf(<<RowAnn, RowBob>>)}

\* time_context_profiles.json of the read endpoints: absent, the mornings of
\* ann, or her evenings with an activity and without genres.
EveningTimeContext == s_ann :> (s_evening :> Context(s_happy, s_workout, <<>>, 2, 500))

ServiceTimeContextFiles == TimeContextFiles \cup {FileOf(EveningTimeContext)}

ServiceStartup ==
    LoadAllData({json_document(MainIndexes)}, {MainCatalogFile}, ServiceProfilesFiles,
                ServiceTimeContextFiles)

NextService ==
    \/ ServiceStartup
    \/ Onboarding(OnboardingRequests)
    \/ Recommend(UserIds, RequestMoods, RequestActivities, RequestTopKs)
    \/ AutoSuggest(UserIds, RequestTopKs, Hours)
    \/ GetUserProfile(UserIds)
    \/ Return

SpecService == InitStartup /\ [][NextService]_vars

-----------------------------------------------------------------------------
(* POST /search, and an index with postings the catalog does not back *)

\* The orders in which list(set) may hand out the ids of a set.
orderings(ids) ==
    {order \in [1 .. Cardinality(ids) -> ids] :
        \A i, j \in 1 .. Cardinality(ids) : order[i] = order[j] => i = j}

\* Lines 51-64 of search.py: the ranking of the candidates in the order the
\* set gave them, and the results of the ranked tracks that have a row.
search(req, candidates, idx, lookup) ==
    LET ranked == rank_candidates_with_tfidf(candidates, <<req.title, req.artist>>,
                                             lookup, idx, req.top_k)
        has_result(entry) == track_to_result(entry[1], entry[2], lookup) # <<>>
        kept == SelectSeq(ranked, has_result)
    IN  Ok([i \in DOMAIN kept |-> track_to_result(kept[i][1], kept[i][2], lookup)])

\* A request to /search.
Search(titles, artists, genre_lists, moods, energies, top_ks) ==
    /\ phase = "serving"
    /\ call = NoCall
    /\ \E title \in titles, artist \in artists, genres \in genre_lists, mood \in moods,
          energy \in energies, top_k \in top_ks :
        \E candidates \in orderings(retrieve_candidates(indexes, genres, mood, energy,
                                                        title, artist)) :
            /\ call' = [op |-> "search", title |-> title, artist |-> artist,
                        genres |-> genres, mood |-> mood, energy |-> energy,
                        top_k |-> top_k]
            /\ ret' = search(call', candidates, indexes, track_lookup)
    /\ UNCHANGED <<indexes, track_lookup, service>>

\* MainIndexes built from a catalog that still had a track 4, a sad, calm
\* rock track.
DanglingIndexes ==
    [MainIndexes EXCEPT !.mood = (s_happy :> <<1>>) @@ (s_sad :> <<2, 3, 4>>),
                        !.energy = (s_energetic :> <<1>>) @@ (s_calm :> <<2, 3, 4>>)]

\* The loaded data with the dangling postings, and no user.
InitDangling ==
    /\ indexes = DanglingIndexes
    /\ track_lookup = MainCatalog
    /\ NoUsers
    /\ call = NoCall
    /\ ret = {}

\* A user whose top genres include rock.
RockFans == {OnboardingRequest(s_Ann, <<s_rock, s_jazz>>)}

NextDangling ==
    \/ RankTfidf
    \/ RankByFeatures
    \/ Onboarding(RockFans)
    \/ Search({<<>>, s_Song, s_bang}, {<<>>, s_Abba}, {<<>>, <<s_rock>>}, {<<>>, s_sad},
              {<<>>, s_calm}, RequestTopKs)
    \/ Recommend({s_Ann, s_nap}, {s_sad, s_happy}, {<<>>, s_relax}, RequestTopKs)
    \/ Return

SpecDangling == InitDangling /\ [][NextDangling]_vars

-----------------------------------------------------------------------------
(* Calls of generate_explanation *)

\* Songs on both sides of the energy and popularity thresholds, and a record
\* without any of the columns.
ExplainedSongs ==
    {Row(s_Song, s_Abba, g, m, s_calm, pop, e, 90, 90, 90, 100) :
        g \in {s_Pop, s_jazz}, m \in {s_happy, s_sad}, pop \in {74, 75},
        e \in {0, 63, 64, 125, 126, FeatureUnit}}
    \cup {EmptyDict}

\* Breakdowns on both sides of the similarity thresholds, with no, an
\* adjacent and an exact mood match, and a breakdown without components.
Breakdowns ==
    {[audio_similarity |-> sim, mood_match |-> mood_sc] :
        sim \in {8499, 8500, 9499, 9500}, mood_sc \in {0, 3000, ScoreUnit}}
    \cup {EmptyDict}

ExplainedGenres == {<<>>, <<s_pop>>, <<s_rock, s_jazz>>}

\* A call of generate_explanation.
GenerateExplanation ==
    /\ call = NoCall
    /\ \E song \in ExplainedSongs, breakdown \in Breakdowns,
          user_genres \in ExplainedGenres, mood \in {s_happy, s_chill},
          activity \in {<<>>, s_workout, s_study, s_relax, s_commute} :
        /\ call' = [op |-> "generate_explanation", song |-> song,
                    breakdown |-> breakdown, user_genres |-> user_genres,
                    mood |-> mood, activity |-> activity]
        /\ ret' = generate_explanation(song, breakdown, user_genres, mood, activity)
    /\ UNCHANGED <<indexes, track_lookup, service>>

NextExplain == GenerateExplanation \/ Return

SpecExplain == InitRank /\ [][NextExplain]_vars

-----------------------------------------------------------------------------
(* Candidate retrieval: what is checked *)

IsRetrieve == call.op = "retrieve_candidates"

\* The postings of a token as a set; empty for a token the index lacks.
Postings(index, tok) == set(index_get(index, tok))

\* Every track id some posting names.
PostedIds ==
    UNION {UNION {Postings(indexes[c], tok) : tok \in DOMAIN indexes[c]} :
              c \in DOMAIN indexes}

TitleActive(c) == tokenize(c.title_query) # <<>>
ArtistActive(c) == tokenize(c.artist_query) # <<>>
GenreActive(c) == c.genres # <<>>
MoodActive(c) == c.mood # <<>>
EnergyActive(c) == c.energy # <<>>
AnyActive(c) ==
    TitleActive(c) \/ ArtistActive(c) \/ GenreActive(c) \/ MoodActive(c)
        \/ EnergyActive(c)

\* The text match of C2: in the postings of every title token in the title
\* index and of every artist token in the artist index.
TextMatch(c, t) ==
    /\ \A tok \in set(tokenize(c.title_query)) : t \in Postings(indexes.title, tok)
    /\ \A tok \in set(tokenize(c.artist_query)) : t \in Postings(indexes.artist, tok)

GenreMatch(c, t) ==
    \E i \in DOMAIN c.genres : t \in Postings(indexes.genre, lower(c.genres[i]))

\* AND across the active categories, OR within the genre category.
Matches(c, t) ==
    /\ (TitleActive(c) \/ ArtistActive(c)) => TextMatch(c, t)
    /\ GenreActive(c) => GenreMatch(c, t)
    /\ MoodActive(c) => t \in Postings(indexes.mood, lower(c.mood))
    /\ EnergyActive(c) => t \in Postings(indexes.energy, lower(c.energy))

\* C1: retrieve_candidates returns exactly the tracks that are in the hit set
\* of every active category (genre: union over the lowercased requested
\* genres; mood, energy: postings of the lowercased value; text: the text
\* match); genres=[Pop], mood=Sad on postings pop->{1,2}, sad->{2,3} give {2}.
C1_IntersectionOfActive ==
    (IsRetrieve /\ AnyActive(call)) =>
        /\ ret = {t \in PostedIds : Matches(call, t)}
        /\ (/\ call.genres = <<s_Pop>>
            /\ call.mood = s_Sad
            /\ call.energy = <<>>
            /\ call.title_query = <<>>
            /\ call.artist_query = <<>>) => ret = {2}

C1_Witness ==
    /\ IsRetrieve
    /\ call.genres = <<s_Pop>>
    /\ call.mood = s_Sad
    /\ call.energy = <<>>
    /\ call.title_query = <<>>
    /\ call.artist_query = <<>>
    /\ ret = {2}

\* C2: with text in the query every returned track is in the postings of
\* every title token (title index) and of every artist token (artist index);
\* a token the index lacks leaves nothing; with no bucket filter the result
\* is exactly the tracks matching all tokens of both texts.
C2_TextConjunctive ==
    (IsRetrieve /\ (TitleActive(call) \/ ArtistActive(call))) =>
        /\ \A t \in ret : TextMatch(call, t)
        /\ (\E tok \in set(tokenize(call.title_query)) :
                tok \notin DOMAIN indexes.title) => ret = {}
        /\ (\E tok \in set(tokenize(call.artist_query)) :
                tok \notin DOMAIN indexes.artist) => ret = {}
        /\ (~GenreActive(call) /\ ~MoodActive(call) /\ ~EnergyActive(call)) =>
                ret = {t \in PostedIds : TextMatch(call, t)}

C2_Witness ==
    /\ IsRetrieve
    /\ call.title_query = JoinWords(<<s_love, s_Song>>)
    /\ call.artist_query = s_Abba
    /\ call.genres = <<>> /\ call.mood = <<>> /\ call.energy = <<>>
    /\ ret = {1}

\* C3: with no active filter category retrieve_candidates returns the empty
\* set.
C3_NoFilterNoCandidates ==
    (IsRetrieve /\ ~AnyActive(call)) => ret = {}

C3_Witness ==
    /\ IsRetrieve
    /\ call.title_query = <<>> /\ call.artist_query = <<>>
    /\ call.genres = <<>> /\ call.mood = <<>> /\ call.energy = <<>>
    /\ ret = {}

FilterCategories == {"title_query", "artist_query", "genres", "mood", "energy"}

\* The call c with only the filters of group kept.
Restrict(c, group) ==
    [f \in DOMAIN c |-> IF f \in group \cup {"op"} THEN c[f] ELSE <<>>]

RetrieveOf(c) ==
    retrieve_candidates(indexes, c.genres, c.mood, c.energy, c.title_query,
                        c.artist_query)

Supplied(c) == {f \in FilterCategories : c[f] # <<>>}

Active(c) ==
    {f \in Supplied(c) :
        (f = "title_query" => TitleActive(c)) /\ (f = "artist_query" => ArtistActive(c))}

GenresPermuted(c, p) ==
    [c EXCEPT !.genres = [i \in DOMAIN c.genres |-> c.genres[p[i]]]]

PermutationInvariant ==
    \A p \in Permutations(DOMAIN call.genres) : RetrieveOf(GenresPermuted(call, p)) = ret

\* C4 as claimed: for every split of the supplied filters into two non-empty
\* groups the result is the intersection of the two groups' results, and
\* permuting the genre list changes nothing.
C4_AnySplitIntersects ==
    IsRetrieve =>
        /\ \A A \in SUBSET Supplied(call) :
              (A # {} /\ Supplied(call) \ A # {}) =>
                  ret = RetrieveOf(Restrict(call, A))
                            \cap RetrieveOf(Restrict(call, Supplied(call) \ A))
        /\ PermutationInvariant

\* C4 as amended: the same for every split into two groups that each hold an
\* active filter (a text yielding no token is not active).
C4_ActiveSplitIntersects ==
    IsRetrieve =>
        /\ \A A \in SUBSET Supplied(call) :
              (A \cap Active(call) # {} /\ (Supplied(call) \ A) \cap Active(call) # {}) =>
                  ret = RetrieveOf(Restrict(call, A))
                            \cap RetrieveOf(Restrict(call, Supplied(call) \ A))
        /\ PermutationInvariant

C4_Witness ==
    /\ IsRetrieve
    /\ call.title_query = s_love
    /\ call.genres = <<s_Pop, s_rock>>
    /\ call.mood = s_Sad
    /\ ret = {2}

-----------------------------------------------------------------------------
(* Ranking: what is checked *)

IsTfidf == call.op = "rank_candidates_with_tfidf"
IsFeatures == call.op = "rank_candidates_by_features"
IsScore == call.op = "score_candidate_song"
IsIdf == call.op = "idf"

\* Some fragment of the query holds a token.
HasTerms == \E i \in DOMAIN call.query_texts : tokenize(call.query_texts[i]) # <<>>

Occurrences(list, x) == Cardinality({i \in DOMAIN list : list[i] = x})

\* Descending score, and ascending track id among equal scores.
StrictlySorted(r) ==
    \A i, j \in DOMAIN r :
        i < j => r[i][2] > r[j][2] \/ (r[i][2] = r[j][2] /\ r[i][1] < r[j][1])

\* The same, except that an id the candidates repeat may follow itself.
SortedUpToRepeats(r, candidates) ==
    \A i, j \in DOMAIN r :
        i < j =>
            \/ r[i][2] > r[j][2]
            \/ r[i][2] = r[j][2] /\ r[i][1] < r[j][1]
            \/ r[i] = r[j] /\ Occurrences(candidates, r[i][1]) > 1

\* C5 as claimed: the output of rank_candidates_with_tfidf is sorted by
\* descending score, then ascending track id, for every candidate list and
\* every query, the empty query included.
C5_SortedForEveryInput == IsTfidf => StrictlySorted(ret)

\* C5 as amended: it is so sorted when the query yields a token and no id is
\* repeated in the candidates (a repeated id follows itself); without a
\* token the output is the candidates in input order, each with score 0.
C5_SortedWhenScored ==
    IsTfidf =>
        /\ HasTerms => SortedUpToRepeats(ret, call.candidates)
        /\ ~HasTerms =>
              /\ Len(ret) <= Len(call.candidates)
              /\ \A i \in DOMAIN ret : ret[i] = <<call.candidates[i], 0>>

C5_Witness ==
    /\ IsTfidf
    /\ call.candidates = <<3, 1, 2>>
    /\ call.query_texts = <<s_love, <<>>>>
    /\ call.top_k = MaxTopK
    /\ Len(ret) = 2
    /\ ret[1][1] = 2 /\ ret[2][1] = 1
    /\ ret[1][2] > ret[2][2]

\* C6: idf is above 0 for every document count and term, dangling postings
\* counted, and for a fixed count a term in more documents has a smaller idf.
C6_IdfPositiveDecreasing ==
    IsIdf =>
        /\ ret.idf > 0
        /\ \A other \in Vocabulary :
              doc_freq_for_token(other, indexes.title, indexes.artist) > ret.df
                  => idf(other, indexes.title, indexes.artist, call.N) < ret.idf

\* C7: the output of rank_candidates_by_features is in descending final
\* score, ties in ascending track id; every id in it is a candidate and a key
\* of the track lookup, and occurs no more often than in the candidates.
C7_FeaturesSorted ==
    IsFeatures =>
        /\ SortedUpToRepeats(ret, call.candidates)
        /\ \A i \in DOMAIN ret :
              /\ ret[i][1] \in set(call.candidates)
              /\ ret[i][1] \in DOMAIN track_lookup
              /\ Occurrences([k \in DOMAIN ret |-> ret[k][1]], ret[i][1])
                    <= Occurrences(call.candidates, ret[i][1])

C7_Witness ==
    /\ IsFeatures
    /\ call.candidates = <<4, 3, 2>>
    /\ call.top_k = MaxTopK
    /\ Len(ret) = 2
    /\ ret[1][1] = 2 /\ ret[2][1] = 3
    /\ ret[1][2] = ret[2][2]

IsPrefix(r, full) == Len(r) <= Len(full) /\ \A i \in DOMAIN r : r[i] = full[i]

\* The ranking of the call with no truncation.
FullOrdering ==
    LET all == Len(call.candidates)
    IN  IF IsTfidf
        THEN rank_candidates_with_tfidf(call.candidates, call.query_texts,
                                        track_lookup, indexes, all)
        ELSE rank_candidates_by_features(call.candidates, track_lookup,
                                         call.user_profile, call.mood, call.activity,
                                         all)

\* C8: for every top_k (0 and negative values read as "no entry") both
\* rankers return at most top_k entries, the first ones of the full ordering.
C8_AtMostTopK ==
    (IsTfidf \/ IsFeatures) =>
        /\ Len(ret) <= (IF call.top_k > 0 THEN call.top_k ELSE 0)
        /\ IsPrefix(ret, FullOrdering)

\* The five unordered pairs of moods the table relates.
AdjacentPairs ==
    {{s_happy, s_hype}, {s_happy, s_chill}, {s_chill, s_sad}, {s_chill, s_focus},
     {s_sad, s_focus}}

SongMood == call.song.mood_bucket

\* C9 as claimed: 1.0 on equal moods, 0.3 on adjacent ones, 0.0 otherwise,
\* adjacency being directional: target hype with candidate happy scores 0.3,
\* target happy with candidate hype does not.
C9_DirectionalAdjacency ==
    IsScore =>
        /\ (SongMood = call.mood /\ SongMood # <<>>) => ret[2].mood_match = ScoreUnit
        /\ (SongMood = s_happy /\ call.mood = s_hype)
              => ret[2].mood_match = (3 * ScoreUnit) \div 10
        /\ (SongMood = s_hype /\ call.mood = s_happy)
              => ret[2].mood_match # (3 * ScoreUnit) \div 10

\* C9 as amended: 1.0 on equal moods, 0.3 on adjacent ones, 0.0 otherwise,
\* adjacency being symmetric: each of the five related pairs scores 0.3 in
\* both directions, happy and hype included.
C9_SymmetricAdjacency ==
    IsScore =>
        ret[2].mood_match =
            IF SongMood = <<>> \/ call.mood = <<>> THEN 0
            ELSE IF SongMood = call.mood THEN ScoreUnit
            ELSE IF {SongMood, call.mood} \in AdjacentPairs THEN (3 * ScoreUnit) \div 10
            ELSE 0

C9_Witness ==
    /\ IsScore
    /\ SongMood = s_hype
    /\ call.mood = s_happy
    /\ ret[2].mood_match = (3 * ScoreUnit) \div 10

UnitFeatures == {"energy", "valence", "danceability", "acousticness"}

InDocumentedRanges ==
    /\ \A f \in UnitFeatures : call.song[f] \in 0 .. FeatureUnit
    /\ call.song.popularity \in 0 .. 100
    /\ call.user_profile.avg_energy_preference \in 0 .. FeatureUnit

-----------------------------------------------------------------------------
(* Context functions: what is checked *)

IsVector == call.op = "build_user_audio_vector"
IsGenreMatch == call.op = "_genre_match_score"
IsCosine == call.op = "cosine_similarity"
IsHour == call.op = "hour_to_timeslot"
IsProfiler == call.op = "build_time_context_profiles"

\* h/100 as a feature value.
Hundredths(h) == (h * FeatureUnit) \div 100

StoredEnergy(profile) ==
    IF "avg_energy_preference" \in DOMAIN profile THEN profile.avg_energy_preference
    ELSE Hundredths(50)

\* C11: the energy of the target vector is the fixed value of the activity
\* (workout 0.85, study 0.25, relax 0.20, commute 0.55) whatever the stored
\* preference, and the stored preference without or with an unrecognized
\* activity; the other components are those of the mood's row with the tempo
\* as (bpm - 40)/180; hype with workout gives 0.85, 0.75, 0.85, 0.15,
\* (140 - 40)/180; an unknown mood gives 0.5, 0.5, 0.5 and 110 BPM.
C11_TargetVector ==
    IsVector =>
        /\ Len(ret) = 5
        /\ ret[1] = IF call.activity = s_workout THEN Hundredths(85)
                    ELSE IF call.activity = s_study THEN Hundredths(25)
                    ELSE IF call.activity = s_relax THEN Hundredths(20)
                    ELSE IF call.activity = s_commute THEN Hundredths(55)
                    ELSE StoredEnergy(call.user_profile)
        /\ call.mood \in Moods =>
              /\ ret[2] = mood_profiles[call.mood].valence
              /\ ret[3] = mood_profiles[call.mood].danceability
              /\ ret[4] = mood_profiles[call.mood].acousticness
              /\ ret[5] = mood_profiles[call.mood].tempo - 40
        /\ call.mood \notin Moods =>
              SubSeq(ret, 2, 5) =
                  <<Hundredths(50), Hundredths(50), Hundredths(50), 110 - 40>>
        /\ (call.mood = s_hype /\ call.activity = s_workout) =>
              ret = <<Hundredths(85), Hundredths(75), Hundredths(85), Hundredths(15),
                      140 - 40>>

C11_Witness ==
    /\ IsVector
    /\ call.mood = s_hype
    /\ call.activity = s_workout
    /\ call.user_profile = Profile(<<s_jazz>>, 0)
    /\ ret = <<153, 135, 153, 27, 100>>

\* The capital and the small form of the letters the model's texts use.
CasePairs == {{"A", "a"}, {"L", "l"}, {"P", "p"}, {"S", "s"}}

SameIgnoringCase(x, y) ==
    /\ Len(x) = Len(y)
    /\ \A i \in DOMAIN x : x[i] = y[i] \/ {x[i], y[i]} \in CasePairs

\* C12: the genre match score is 1.0 exactly when the candidate's genre
\* equals, letter case ignored, one of the user's top genres (top genres
\* [pop, rock] and candidate Pop give 1.0), and 0.0 otherwise, an empty
\* candidate genre and an empty top-genre list included.
C12_GenreMatchIgnoresCase ==
    IsGenreMatch =>
        /\ ret = IF /\ call.song_genre # <<>>
                    /\ \E i \in DOMAIN call.user_genres :
                          SameIgnoringCase(call.song_genre, call.user_genres[i])
                 THEN ScoreUnit ELSE 0
        /\ (call.song_genre = <<>> \/ call.user_genres = <<>>) => ret = 0
        /\ (call.song_genre = s_Pop /\ call.user_genres = <<s_pop, s_rock>>)
              => ret = ScoreUnit

C12_Witness ==
    /\ IsGenreMatch
    /\ call.song_genre = s_Pop
    /\ call.user_genres = <<s_pop, s_rock>>
    /\ ret = ScoreUnit

ZeroVector(v) == \A i \in DOMAIN v : v[i] = 0

\* C13: for every pair of equal-length vectors of which one has magnitude 0
\* cosine_similarity returns 0, and no call ends in a division fault.
C13_ZeroVectorZeroSimilarity ==
    IsCosine =>
        /\ (ZeroVector(call.a) \/ ZeroVector(call.b)) => ret = 0
        /\ ret >= 0

C13_Witness ==
    /\ IsCosine
    /\ call.a = <<FeatureUnit, HalfFeature>>
    /\ call.b = <<0, 0>>
    /\ ret = 0

\* C14: every hour 0..23 has one slot: 6..11 morning, 12..16 afternoon,
\* 17..20 evening, night otherwise; 5 -> night, 6 -> morning, 11 -> morning,
\* 12 -> afternoon, 20 -> evening, 21 -> night.
C14_TimeslotBoundaries ==
    IsHour =>
        /\ ret \in {s_morning, s_afternoon, s_evening, s_night}
        /\ ret = s_morning <=> call.hour \in 6 .. 11
        /\ ret = s_afternoon <=> call.hour \in 12 .. 16
        /\ ret = s_evening <=> call.hour \in 17 .. 20
        /\ ret = s_night <=> call.hour \in (0 .. 5) \cup (21 .. 23)
        /\ call.hour = 5 => ret = s_night
        /\ call.hour = 6 => ret = s_morning
        /\ call.hour = 11 => ret = s_morning
        /\ call.hour = 12 => ret = s_afternoon
        /\ call.hour = 20 => ret = s_evening
        /\ call.hour = 21 => ret = s_night

C14_Witness ==
    /\ IsHour
    /\ call.hour = 6
    /\ ret = s_morning

RECURSIVE SumConfidence(_, _)
\* The sum of the stored confidences of the timeslots "slots" of one user.
SumConfidence(ctx, slots) ==
    IF slots = {} THEN 0
    ELSE LET tod == CHOOSE s \in slots : TRUE
         IN  ctx[tod].confidence + SumConfidence(ctx, slots \ {tod})

\* The played-and-not-skipped rows of a user id as written.
PlayedBy(id) ==
    LET keep(r) == r.user_id = id /\ r.event_type = s_play /\ ~r.skipped
    IN  SelectSeq(call.merged, keep)

InSlot(rows, tod) == Cardinality({i \in DOMAIN rows : rows[i].time_of_day = tod})

Distance(x, y) == IF x >= y THEN x - y ELSE y - x

\* C15 as claimed: the stored confidences of every user in the output sum to
\* 1.0.
C15_ConfidencesSumToOne ==
    IsProfiler =>
        \A uid \in DOMAIN ret : SumConfidence(ret[uid], DOMAIN ret[uid]) = MilliUnit

\* C15 as amended: every stored confidence is the slot's count of played and
\* not skipped events over the user's total of such events, rounded to three
\* decimals, so the stored values sum to the share of the user's events that
\* have a timeslot, within 0.0005 per slot: to 1.0 within that tolerance when
\* every event has a timeslot, and to less otherwise.
C15_ConfidencesSumWithinRounding ==
    IsProfiler =>
        \A uid \in DOMAIN ret :
            \E id \in {call.merged[i].user_id : i \in DOMAIN call.merged} :
                LET rows == PlayedBy(id)
                    total == Len(rows)
                    slots == DOMAIN ret[uid]
                    slotted == Cardinality({i \in DOMAIN rows :
                                               rows[i].time_of_day # <<>>})
                    sum == SumConfidence(ret[uid], slots)
                IN  /\ lower(id) = uid
                    /\ total > 0
                    /\ \A tod \in slots :
                          /\ ret[uid][tod].event_count = InSlot(rows, tod)
                          /\ 2 * Distance(ret[uid][tod].confidence * total,
                                          MilliUnit * InSlot(rows, tod)) <= total
                    /\ 2 * Distance(sum * total, MilliUnit * slotted)
                          <= total * Cardinality(slots)
                    /\ slotted = total =>
                          2 * Distance(sum, MilliUnit) <= Cardinality(slots)

C15_Witness ==
    /\ IsProfiler
    /\ s_ann \in DOMAIN ret
    /\ DOMAIN ret[s_ann] = {s_morning, s_evening, s_night}
    /\ \A tod \in DOMAIN ret[s_ann] : ret[s_ann][tod].confidence = 333

-----------------------------------------------------------------------------
(* Startup: what is checked *)

IsLoad == call.op = "load_all_data"

\* A required category is missing from the document.
CategoryMissing(document) == \E key \in required : key \notin DOMAIN document

\* A token of a required category maps to a value that is no list.
PostingsMalformed(document) ==
    \E key \in required \cap DOMAIN document : \E tok \in DOMAIN document[key] :
        document[key][tok].kind # "list"

IndexRefused == CategoryMissing(call.index_document) \/ PostingsMalformed(call.index_document)

CatalogRefused == "track_id" \notin call.catalog_file.columns

\* The index the document holds, token by token.
IndexOf(document) ==
    [key \in DOMAIN document |->
        [tok \in DOMAIN document[key] |-> document[key][tok].items]]

\* C19 as claimed: a document with a missing category or a non-list postings
\* value and a catalog without track_id make the startup fail, a failed
\* startup leaves the index store and the catalog store unpopulated, and a
\* successful one stores the index as the document holds it.
C19_FailedLoadStoresNothing ==
    IsLoad =>
        /\ (IndexRefused \/ CatalogRefused) => (ret = "ValueError" /\ phase = "failed")
        /\ phase = "failed" => (indexes = EmptyDict /\ track_lookup = EmptyDict)
        /\ phase = "serving" => indexes = IndexOf(call.index_document)

\* C19 as amended: the same refusals; a startup that fails in load_indexes
\* leaves both stores unpopulated, one that fails later (the catalog lacks
\* track_id, or the profile file is missing) leaves the loaded index in the
\* index store, and the catalog store unpopulated only if the catalog was
\* refused; a failed startup serves nothing and a successful one stores the
\* index as the document holds it.
C19_RefusedLoadFailsStartup ==
    IsLoad =>
        /\ (IndexRefused \/ CatalogRefused) => (ret = "ValueError" /\ phase = "failed")
        /\ IndexRefused => (indexes = EmptyDict /\ track_lookup = EmptyDict)
        /\ (~IndexRefused /\ CatalogRefused) =>
              (indexes = IndexOf(call.index_document) /\ track_lookup = EmptyDict)
        /\ (phase = "failed" /\ ~IndexRefused /\ ~CatalogRefused) =>
              indexes = IndexOf(call.index_document)
        /\ phase = "failed" => (user_profiles = EmptyDict /\ ret # "")
        /\ phase = "serving" =>
              (ret = "" /\ indexes = IndexOf(call.index_document))

C19_Witness ==
    /\ IsLoad
    /\ call.catalog_file = NoIdCatalogFile
    /\ ret = "ValueError"
    /\ phase = "failed"
    /\ indexes = MainIndexes
    /\ track_lookup = EmptyDict

-----------------------------------------------------------------------------
(* The profile store: what is checked *)

\* C16 (as stated): after any sequence of CSV bootstrap, onboarding and
\* Spotify-profile sync, every stored profile has at most 5 top genres.
\* The bootstrap stores every genre of the CSV cell, so a row of six genres
\* violates it.
C16_AtMostFiveTopGenres ==
    \A k \in DOMAIN user_profiles : Len(user_profiles[k].top_genres) <= 5

\* The profile a coroutine that ends in this step has built from its locals.
built_by(r) ==
    spotify_profile_of(r.spotify_user_id, r.top_genres,
                       preferred_moods_of(r.averages.valence), r.averages.energy)

\* The records a rebuild can store in this step: what an onboarding builds,
\* and what a coroutine leaving its last fetches has built.
RebuiltNow ==
    {onboarding_profile(req) : req \in OnboardingRequests}
        \cup {built_by(r) : r \in {q \in requests \ requests' :
                                      q.pc \in {"recently_played", "recent_features"}}}

\* C17: a profile rebuild (onboarding or Spotify-profile sync) for user key k
\* replaces the stored profile at lowercase(k) wholesale: the stored record
\* is exactly the newly built one, the profiles under all other keys are
\* unchanged, and no step ever removes a key from the user-profile store.
C17_RebuildReplacesWholesale ==
    [][/\ DOMAIN user_profiles \subseteq DOMAIN user_profiles'
       /\ (phase = "serving" /\ user_profiles' # user_profiles) =>
            \E built \in RebuiltNow :
                LET key == lower(built.user_id)
                IN  user_profiles' =
                        [k \in DOMAIN user_profiles \cup {key} |->
                            IF k = key THEN built ELSE user_profiles[k]]]_vars

\* C17 witness: the record the CSV gave ann has been replaced by the record
\* of an onboarding of "Ann", equal to it in every field, while bob's is
\* still the one of the CSV.
C17_Witness ==
    /\ phase = "serving"
    /\ DOMAIN user_profiles = {s_ann, s_bob}
    /\ user_profiles[s_ann] = onboarding_profile(OnboardingRequest(s_Ann, <<s_jazz>>))
    /\ user_profiles[s_bob] = profile_of_row(RowBob)

\* The complete records one operation can store under key k: a row of the
\* CSV, an onboarding, or one spotify_profile request with the answers its
\* account can get.
BootstrapRecords(k) ==
    {profile_of_row(row) : row \in {r \in {RowAnn, RowAnnSix, RowBob} : lower(r.user_id) = k}}

OnboardingRecords(k) ==
    {onboarding_profile(req) : req \in {q \in OnboardingRequests : lower(q.user_id) = k}}

AveragesOf(id) ==
    {IF track_ids_of(t) = <<>> THEN averages_of(<<>>)
     ELSE averages_of(present_features(f)) : t \in TopTracks[id], f \in AudioFeatures[id]}

SyncRecords(k) ==
    UNION {{spotify_profile_of(id, top_genres_of(a), preferred_moods_of(avg.valence),
                               avg.energy) : a \in TopArtists[id], avg \in AveragesOf(id)}
           : id \in {i \in SpotifyIds : lower(i) = k}}

\* C18: under any interleaving of onboardings and spotify_profile requests
\* suspended at their fetches, the profile stored under a key is at every
\* moment the complete record built by one operation for that key, never a
\* mixture of the fields of two requests and never the record of another key.
C18_StoredProfileIsOneRequests ==
    \A k \in DOMAIN user_profiles :
        user_profiles[k] \in BootstrapRecords(k) \cup OnboardingRecords(k) \cup SyncRecords(k)

\* C18 witness: the request of "Ann" has stored its record under ann while
\* the request of "ann", for the same key, is suspended with its genres
\* already counted.
C18_Witness ==
    /\ s_ann \in DOMAIN user_profiles
    /\ user_profiles[s_ann].user_id = s_Ann
    /\ user_profiles[s_ann] \in SyncRecords(s_ann)
    /\ \E r \in requests : r.spotify_user_id = s_ann /\ r.pc = "recently_played"

-----------------------------------------------------------------------------
(* The read endpoints: what is checked *)

IsRead(c) == c.op \in {"recommend", "auto_suggest", "get_user_profile"}

\* Whether the profile store has no profile for the id, in any spelling.
Unknown(user_id) == lower(user_id) \notin DOMAIN user_profiles

\* The tracks of the catalog that pass the mood filter, if a mood is given,
\* and the energy filter, if the context gives an energy label; none if
\* neither filter is active.
MoodAndEnergyHits(mood, activity) ==
    IF mood = <<>> /\ energy_filter(mood, activity) = <<>> THEN {}
    ELSE {t \in DOMAIN track_lookup :
            /\ mood # <<>> => t \in Postings(indexes.mood, lower(mood))
            /\ energy_filter(mood, activity) # <<>>
                  => t \in Postings(indexes.energy, energy_filter(mood, activity))}

\* The target vector of a profile whose energy preference is 0.5.
NeutralTarget(mood, activity) ==
    build_user_audio_vector([avg_energy_preference |-> HalfFeature], mood, activity)

\* C20: a request for an unknown user id changes no store and does not
\* fail.  /recommend answers with the tracks that pass the mood and energy
\* filters, no genre filter applied and no genre matched, scored against an
\* energy preference of 0.5; /auto-suggest and the profile lookup answer
\* 404.  The lookup is by the lowercased id: an id is known exactly if its
\* lowercase is a key, and the profile returned is the one under that key.
C20_UnknownUserIsHarmless ==
    [][(call = NoCall /\ IsRead(call')) =>
        /\ UNCHANGED <<indexes, track_lookup, service>>
        /\ ret'.status \in {200, 404}
        /\ call'.op \in {"auto_suggest", "get_user_profile"} =>
              (ret'.status = 404 <=> Unknown(call'.user_id))
        /\ (call'.op = "get_user_profile" /\ ~Unknown(call'.user_id)) =>
              ret'.body = user_profiles[lower(call'.user_id)]
        /\ (call'.op = "recommend" /\ Unknown(call'.user_id)) =>
              LET body == ret'.body
                  ids == {body[i].track_id : i \in DOMAIN body}
                  hits == MoodAndEnergyHits(call'.mood, call'.activity)
              IN  /\ ret'.status = 200
                  /\ ids \subseteq hits
                  /\ call'.top_k >= Cardinality(hits) => ids = hits
                  /\ \A i \in DOMAIN body :
                        /\ body[i].score_breakdown.genre_match = 0
                        /\ body[i].score_breakdown.audio_similarity =
                              cosine_similarity(
                                  NeutralTarget(call'.mood, call'.activity),
                                  build_feature_vector(track_lookup[body[i].track_id]))]_vars

\* C20 witness: while other users have profiles with top genres, /recommend
\* for a user nobody stores has answered with both sad, calm tracks, one of
\* them of a genre no stored user lists first.
C20_Witness ==
    /\ call.op = "recommend"
    /\ Unknown(call.user_id)
    /\ \E k \in DOMAIN user_profiles : user_profiles[k].top_genres # <<>>
    /\ ret.status = 200
    /\ {ret.body[i].track_id : i \in DOMAIN ret.body} = {2, 3}

-----------------------------------------------------------------------------
(* Dangling postings: what is checked *)

IsSearch == call.op = "search"
IsRecommend == call.op = "recommend"

\* The track ids of a ranking or of a response body.
RankedIds == {ret[i][1] : i \in DOMAIN ret}
BodyIds == {ret.body[i].track_id : i \in DOMAIN ret.body}

\* C21 (as stated): for any candidate list and any query texts, none
\* included, neither ranker returns a track id that is not a key of the track
\* lookup, and no search or recommend response contains such a track.
C21_NoDanglingResult ==
    /\ (IsTfidf \/ IsFeatures) => RankedIds \subseteq DOMAIN track_lookup
    /\ (IsSearch \/ IsRecommend) => BodyIds \subseteq DOMAIN track_lookup

\* C21 (amended): rank_candidates_by_features never returns a track id that
\* is not a key of the track lookup, rank_candidates_with_tfidf never does
\* when the query texts hold a token, and no search or recommend response
\* contains such a track; without a token rank_candidates_with_tfidf returns
\* its candidates as they are.
C21_NoDanglingResultWhenScored ==
    /\ IsFeatures => RankedIds \subseteq DOMAIN track_lookup
    /\ (IsTfidf /\ HasTerms) => RankedIds \subseteq DOMAIN track_lookup
    /\ (IsSearch \/ IsRecommend) => BodyIds \subseteq DOMAIN track_lookup

\* C21 witness: a search by genre alone whose candidates are track 3 and the
\* dangling track 4 has answered with track 3 only.
C21_Witness ==
    /\ IsSearch
    /\ call.title = <<>> /\ call.artist = <<>>
    /\ retrieve_candidates(indexes, call.genres, call.mood, call.energy, call.title,
                           call.artist) = {3, 4}
    /\ BodyIds = {3}

-----------------------------------------------------------------------------
(* Queries without tokens and with repeated tokens: what is checked *)

\* The first k entries of a list, none for k below 1.
FirstK(list, k) ==
    SubSeq(list, 1, IF k <= 0 THEN 0 ELSE IF k < Len(list) THEN k ELSE Len(list))

\* C22 (as stated): when the query texts yield no token,
\* rank_candidates_with_tfidf returns the first top_k candidates in their
\* input order, each with score 0, whether or not the catalog holds them.
\* A negative top_k returns all candidates but the last -top_k.
C22_FirstTopKUnscored ==
    (IsTfidf /\ ~HasTerms) =>
        ret = [i \in DOMAIN FirstK(call.candidates, call.top_k) |->
                  <<call.candidates[i], 0>>]

RECURSIVE distinct_terms(_)
\* The tokens of a list, each at its first occurrence only.
distinct_terms(terms) ==
    IF terms = <<>> THEN <<>>
    ELSE LET front == distinct_terms(SubSeq(terms, 1, Len(terms) - 1))
             last == terms[Len(terms)]
         IN  IF \E i \in DOMAIN front : front[i] = last THEN front
             ELSE Append(front, last)

\* C23 (as stated): the query terms are the union of the tokens of the
\* fragments, each distinct token counted once: the score of every ranked
\* track is the score the distinct tokens give.  The code adds one summand
\* per occurrence, so a token in both fragments counts twice.
C23_DistinctTokensCountOnce ==
    (IsTfidf /\ HasTerms) =>
        \A i \in DOMAIN ret :
            ret[i][2] = score_doc_tfidf_for_fields(
                            track_lookup[ret[i][1]],
                            distinct_terms(concat_tokens(call.query_texts)),
                            unique_doc_count(track_lookup), indexes.title,
                            indexes.artist)

-----------------------------------------------------------------------------
(* Explanations: what is checked *)

IsExplain == call.op = "generate_explanation"

\* The rule a clause belongs to, in the order of the rules; 6 is the fallback.
RuleOf(clause) ==
    IF clause[1] \in {"excellent match", "strong similarity"} THEN 1
    ELSE IF clause[1] \in {"high energy", "low energy"} THEN 2
    ELSE IF clause[1] \in {"mood matches", "mood adjacent"} THEN 3
    ELSE IF clause[1] = "top genre" THEN 4
    ELSE IF clause[1] = "popular" THEN 5
    ELSE 6

\* A column of the explained song, or the default the rule gives it.
SongColumn(name, default) ==
    IF name \in DOMAIN call.song THEN call.song[name] ELSE default

\* A component of the breakdown, 0 if absent.
Component(name) == IF name \in DOMAIN call.breakdown THEN call.breakdown[name] ELSE 0

\* Whether each of the five rules fires on the call's arguments, the
\* thresholds being 0.85, 0.7, 0.35 and 75.
Fires(rule) ==
    IF rule = 1 THEN Component("audio_similarity") >= 8500
    ELSE IF rule = 2
    THEN \/ call.activity = s_workout /\ 10 * SongColumn("energy", HalfFeature) >= 7 * FeatureUnit
         \/ call.activity \in {s_study, s_relax}
              /\ 100 * SongColumn("energy", HalfFeature) <= 35 * FeatureUnit
    ELSE IF rule = 3
    THEN SongColumn("mood_bucket", <<>>) = call.mood \/ Component("mood_match") > 0
    ELSE IF rule = 4
    THEN \E i \in DOMAIN call.user_genres :
            lower(call.user_genres[i]) = lower(SongColumn("genre", <<>>))
    ELSE SongColumn("popularity", 0) >= 75

\* C24: generate_explanation appends its clauses in the order similarity,
\* activity-energy, mood, genre, popularity, at most one clause per rule and
\* one exactly for each rule that fires (excellent match from 0.95, strong
\* similarity below; exact mood before adjacent mood); the text is never
\* empty, and it is the fallback clause alone if and only if no rule fires.
C24_ClausesInRuleOrder ==
    IsExplain =>
        /\ ret # <<>>
        /\ \A i, j \in DOMAIN ret : i < j => RuleOf(ret[i]) < RuleOf(ret[j])
        /\ \A rule \in 1 .. 5 : Fires(rule) <=> \E i \in DOMAIN ret : RuleOf(ret[i]) = rule
        /\ (\E i \in DOMAIN ret : RuleOf(ret[i]) = 6) <=> \A rule \in 1 .. 5 : ~Fires(rule)
        /\ \A i \in DOMAIN ret :
              /\ ret[i][1] = "excellent match" <=>
                    (RuleOf(ret[i]) = 1 /\ Component("audio_similarity") >= 9500)
              /\ ret[i][1] = "mood matches" <=>
                    (RuleOf(ret[i]) = 3 /\ SongColumn("mood_bucket", <<>>) = call.mood)

\* C24 witness: all five rules have fired on one song, and the five clauses
\* stand in the order of the rules.
C24_Witness ==
    /\ IsExplain
    /\ Len(ret) = 5
    /\ \A i \in 1 .. 5 : RuleOf(ret[i]) = i

-----------------------------------------------------------------------------
(* Auto-suggestion: what is checked *)

IsAutoSuggest == call.op = "auto_suggest"

\* The slot of an hour: [6,12) morning, [12,17) afternoon, [17,21) evening,
\* night otherwise.
SlotOf(hour) ==
    IF hour >= 6 /\ hour < 12 THEN s_morning
    ELSE IF hour >= 12 /\ hour < 17 THEN s_afternoon
    ELSE IF hour >= 17 /\ hour < 21 THEN s_evening
    ELSE s_night

\* The static defaults of the slots as <<mood, activity>>.
StaticDefault(slot) ==
    IF slot = s_morning THEN <<s_focus, s_commute>>
    ELSE IF slot = s_afternoon THEN <<s_happy, s_study>>
    ELSE IF slot = s_evening THEN <<s_chill, s_relax>>
    ELSE <<s_sad, s_relax>>

\* Whether the time-context store has an entry for the user and the slot of
\* the request.
HasEntry ==
    /\ lower(call.user_id) \in DOMAIN time_context_profiles
    /\ SlotOf(call.hour) \in DOMAIN time_context_profiles[lower(call.user_id)]

\* C25: in /auto-suggest for a known user, without an entry of the
\* time-context store for the user and the current slot, the mood and
\* activity are the static defaults of the slot, based_on_history is false,
\* the confidence is 0 and the genres are the top genres of the profile;
\* with an entry, its typical mood and activity are used and
\* based_on_history is true.  The tracks suggested have the mood used.
C25_DefaultsWithoutHistory ==
    (IsAutoSuggest /\ ~Unknown(call.user_id)) =>
        LET uid == lower(call.user_id)
            slot == SlotOf(call.hour)
            context == ret.body.inferred_context
            tracks == ret.body.tracks
        IN  /\ ret.status = 200
            /\ context.time_of_day = slot
            /\ ~HasEntry =>
                  /\ <<context.suggested_mood, context.suggested_activity>>
                        = StaticDefault(slot)
                  /\ context.based_on_history = FALSE
                  /\ context.confidence = 0
                  /\ context.genres_used = user_profiles[uid].top_genres
            /\ HasEntry =>
                  /\ context.suggested_mood
                        = time_context_profiles[uid][slot].typical_mood
                  /\ context.suggested_activity
                        = time_context_profiles[uid][slot].typical_activity
                  /\ context.based_on_history = TRUE
            /\ \A i \in DOMAIN tracks :
                  tracks[i].track_id \in Postings(indexes.mood, context.suggested_mood)

\* C25 witness: ann, whose only entry is for another slot, has been
\* suggested the sad tracks of the night default, filtered by the genres of
\* her profile.
C25_Witness ==
    /\ IsAutoSuggest
    /\ lower(call.user_id) \in DOMAIN time_context_profiles
    /\ ~HasEntry
    /\ ret.status = 200
    /\ ret.body.inferred_context.suggested_mood = s_sad
    /\ ret.body.inferred_context.genres_used = <<s_pop, s_rock>>
    /\ Len(ret.body.tracks) = 2

-----------------------------------------------------------------------------
(* The time-context store: what is checked *)

\* C26 (as stated): every confidence stored in the time-context store is a
\* fraction in [0,1], whatever was recently played.  The sync divides the
\* plays of a slot by the number of distinct recent tracks, so a track played
\* again counts above and not below.
C26_ConfidenceIsFraction ==
    \A k \in DOMAIN time_context_profiles :
        \A ts \in DOMAIN time_context_profiles[k] :
            /\ time_context_profiles[k][ts].confidence >= 0
            /\ time_context_profiles[k][ts].confidence <= MilliUnit

-----------------------------------------------------------------------------
(* Failed and successful syncs: what is checked *)

\* A step in which spotify_profile answers.
SyncAnswers == call = NoCall /\ call'.op = "spotify_profile"

\* The coroutine that ends in this step, at one of the fetches in "last".
EndsAt(last) ==
    \E r \in requests \ requests' :
        /\ r.spotify_user_id = call'.spotify_user_id
        /\ r.pc \in last
        /\ requests' = requests \ {r}

\* C27: a Spotify-profile sync that fails, for want of a token or by an
\* error of any of its fetches, leaves the user-profile store and the
\* time-context store as they are; the stores are written only in the step
\* in which a sync gets the answer of its last fetch, and only for a user
\* whose token a callback has stored.  No other step writes the
\* time-context store while serving, and only onboarding writes the other.
C27_FailedSyncStoresNothing ==
    [][/\ (SyncAnswers /\ ret'.status # 200) =>
            /\ UNCHANGED <<user_profiles, time_context_profiles>>
            /\ ret'.status = 404 <=> call'.spotify_user_id \notin DOMAIN spotify_tokens
       /\ (SyncAnswers /\ ret'.status = 200) =>
            /\ EndsAt({"recently_played", "recent_features"})
            /\ call'.spotify_user_id \in DOMAIN spotify_tokens
       /\ (phase = "serving" /\ time_context_profiles' # time_context_profiles) =>
            (SyncAnswers /\ ret'.status = 200 /\ EndsAt({"recent_features"}))
       /\ (phase = "serving" /\ user_profiles' # user_profiles /\ ~SyncAnswers) =>
            \E req \in OnboardingRequests :
                user_profiles'[lower(req.user_id)] = onboarding_profile(req)
       /\ \A r \in requests' : r.spotify_user_id \in DOMAIN spotify_tokens']_vars

\* C27 witness: a sync of "Ann" has ended in the error of a fetch, and both
\* stores hold what the startup loaded.
C27_Witness ==
    /\ call.op = "spotify_profile"
    /\ call.spotify_user_id = s_Ann
    /\ ret.status = 502
    /\ user_profiles = bootstrap_profiles(EmptyDict, <<RowAnn, RowBob>>)
    /\ time_context_profiles = MainTimeContext

\* C28 (as stated): after every successful sync for a user, the time
\* context stored for that user is the one that sync derived, or absent if it
\* derived none.  The sync stores a context only if it derived one, so the
\* context of an earlier sync or of the startup stays next to the new profile.
C28_TimeContextIsTheSyncs ==
    [][(SyncAnswers /\ ret'.status = 200) =>
        LET key == lower(call'.spotify_user_id)
            derived == ret'.body.time_context
        IN  IF DOMAIN derived # {}
            THEN key \in DOMAIN time_context_profiles'
                 /\ time_context_profiles'[key] = derived
            ELSE key \notin DOMAIN time_context_profiles']_vars

====
